---- MODULE Spec2Model ----
(***************************************************************************)
(* Model of the deletion-decision engine, the notification threshold      *)
(* engine, the notification history and the delete-clusters and notify     *)
(* commands of nkp-cluster-cleaner (cluster_manager.py, config.py,         *)
(* notification_manager.py, notification_history.py, main.py,              *)
(* commands/notify.py).                                                    *)
(*                                                                         *)
(* Strings are sequences of tokens (a token is a word, a character or a    *)
(* punctuation mark), so that prefix matching (re.match), substring tests  *)
(* ("expired" in reason) and str.lower() are computed, not assumed.        *)
(* Instants are whole hours since 0001-01-01T00:00 (datetime.min).         *)
(***************************************************************************)
EXTENDS Integers, Sequences, FiniteSets, TLC

VARIABLES
    config_data,         \* what yaml.safe_load returned for the policy document
    criteria,            \* ConfigManager.criteria: the loaded DeletionCriteria
    now,                 \* the reading of datetime.now()
    cluster,             \* the KommanderCluster handed to kommander_cluster_matches_criteria
    decision,            \* what kommander_cluster_matches_criteria returned or raised
    command,             \* the CLI command being run
    pc,                  \* position of the command being run
    inventory,           \* result of list_all_kommander_clusters
    idx,                 \* loop index of get_clusters_with_exclusions
    clusters_to_delete,  \* list of (combined_info, reason)
    excluded_clusters,   \* list of (combined_info, reason)
    critical_clusters,   \* list of (cluster_info, elapsed_percentage)
    warning_clusters,    \* list of (cluster_info, elapsed_percentage)
    thresholds,          \* (warning_threshold, critical_threshold)
    current_time,        \* notification_manager.py:64, datetime.now() of the classification
    delete_calls,        \* CAPI references handed to delete_cluster, in order
    history,             \* the Redis sets notifications:cluster:*, as (key, severity) pairs
    notification_history,\* main.py:234, the NotificationHistory of delete-clusters or None
    deleted_count,       \* main.py:279
    failed_count,        \* main.py:280
    clear_calls,         \* clusters handed to clear_cluster_history by delete-clusters
    sent,                \* the requests made to the Slack API, in order
    runs,                \* the notify commands in progress, one record per process
    listing,             \* what the API server answered to the list requests
    notify_backend       \* --notify-backend of delete-clusters

\* What only delete-clusters writes, and what only notify writes
delete_vars == <<notification_history, deleted_count, failed_count, clear_calls>>
notify_vars == <<sent, runs>>

vars == <<config_data, criteria, now, cluster, decision, command, pc, inventory, idx, clusters_to_delete,
          excluded_clusters, critical_clusters, warning_clusters, thresholds,
          current_time, delete_calls, history, delete_vars, notify_vars, listing, notify_backend>>

\* Python's None: as an exception slot, as a missing string, as a missing regex
\* and as a missing creationTimestamp
None == "None"
Absent == <<"<None>">>
NoPattern == [kind |-> "none"]
NoTimestamp == [kind |-> "none", t |-> 0]

\* A Redis database without notification keys, and no notify process
EmptyStore == {}
NoRuns == <<>>
NoListing == <<>>

-----------------------------------------------------------------------------
(* Bounds of the model *)

MaxPatterns == 2        \* entries of protected_cluster_patterns
MaxNsPatterns == 1      \* entries of excluded_namespace_patterns
MaxExtraLabels == 2     \* entries of extra_labels
MaxNow == 2             \* hours the clock may read after the creation instant
MaxClusters == 2        \* KommanderClusters of one inventory
MaxElapsed == 1001      \* hours of clock range in the threshold specification

-----------------------------------------------------------------------------
(* Token strings *)

IsPrefix(p, s) == Len(p) <= Len(s) /\ SubSeq(s, 1, Len(p)) = p

\* Python's `kw in s` on token strings
Contains(s, kw) ==
    \E i \in 0..(Len(s) - Len(kw)) : SubSeq(s, i + 1, i + Len(kw)) = kw

\* str.lower() of one token
LowerTok(t) ==
    CASE t = "Missing" -> "missing"
      [] t = "Label" -> "label"
      [] t = "Cluster" -> "cluster"
      [] t = "KommanderCluster" -> "kommandercluster"
      [] t = "Invalid" -> "invalid"
      [] t = "Referenced" -> "referenced"
      [] t = "No" -> "no"
      [] t = "CAPI" -> "capi"
      [] t = "creationTimestamp" -> "creationtimestamp"
      [] t = "Expected" -> "expected"
      [] t = "H" -> "h"
      [] t = "D" -> "d"
      [] t = "W" -> "w"
      [] t = "Y" -> "y"
      [] t = "H" -> "h"
      [] t = "D" -> "d"
      [] t = "W" -> "w"
      [] t = "Y" -> "y"
      [] OTHER -> t

Lower(s) == [i \in 1..Len(s) |-> LowerTok(s[i])]

Digits == {"0", "1", "2", "3", "4", "5", "6", "7", "8", "9"}

DigitVal(d) ==
    CASE d = "0" -> 0 [] d = "1" -> 1 [] d = "2" -> 2 [] d = "3" -> 3 [] d = "4" -> 4
      [] d = "5" -> 5 [] d = "6" -> 6 [] d = "7" -> 7 [] d = "8" -> 8 [] d = "9" -> 9

RECURSIVE ToInt(_)
ToInt(ds) == IF ds = <<>> THEN 0
             ELSE 10 * ToInt(SubSeq(ds, 1, Len(ds) - 1)) + DigitVal(ds[Len(ds)])

Whitespace == {" "}

RECURSIVE Strip(_)
Strip(s) ==
    IF s = <<>> THEN s
    ELSE IF s[1] \in Whitespace THEN Strip(Tail(s))
    ELSE IF s[Len(s)] \in Whitespace THEN Strip(SubSeq(s, 1, Len(s) - 1))
    ELSE s

-----------------------------------------------------------------------------
(* Regular expressions: the pattern shapes the policy documents use *)

LitPattern(l, d) == [kind |-> "lit", lit |-> l, dollar |-> d]  \* "<l>" or "<l>$"
DigitsPattern == [kind |-> "digits"]                           \* "^([0-9]+)$"
InvalidPattern == [kind |-> "invalid"]                         \* e.g. "["

\* The source text of a pattern, as one token
PatternText(p) ==
    CASE p.kind = "lit" -> "<literal>"
      [] p.kind = "digits" -> "^([0-9]+)$"
      [] p.kind = "invalid" -> "["

\* re.match(pattern, s): "match", "nomatch", or "re.error" when the pattern
\* does not compile.  The match is anchored at the start of s only.
re_match(p, s) ==
    CASE p.kind = "invalid" -> "re.error"
      [] p.kind = "lit" ->
            IF IsPrefix(p.lit, s) /\ (p.dollar => Len(s) = Len(p.lit))
            THEN "match" ELSE "nomatch"
      [] p.kind = "digits" ->
            IF Len(s) >= 1 /\ \A i \in 1..Len(s) : s[i] \in Digits
            THEN "match" ELSE "nomatch"

-----------------------------------------------------------------------------
(* config.py *)

ExtraLabel(n, r) == [name |-> n, regex |-> r]

\* An entry of the extra_labels list of a policy document: a mapping with the
\* keys it has (a missing "name" is None), or a scalar such as a bare string
LabelEntry(is_dict, n, r) == [is_dict |-> is_dict, name |-> n, regex |-> r]

\* ConfigManager._parse_config, lines 99-112: the loop over extra_labels
RECURSIVE ParsedLabels(_)
ParsedLabels(extra_labels_config) ==
    IF extra_labels_config = <<>> THEN <<>>
    ELSE LET label_config == extra_labels_config[1]
             rest == ParsedLabels(Tail(extra_labels_config))
         IN  IF label_config.is_dict /\ label_config.name # None
             THEN <<ExtraLabel(label_config.name, label_config.regex)>> \o rest
             ELSE rest

\* ConfigManager._parse_config: the pattern lists are stored as written
_parse_config(doc) ==
    [protected_cluster_patterns |-> doc.protected_cluster_patterns,
     excluded_namespace_patterns |-> doc.excluded_namespace_patterns,
     extra_labels |-> ParsedLabels(doc.extra_labels)]

\* The policy document that spells out crit
DocumentOf(crit) ==
    [protected_cluster_patterns |-> crit.protected_cluster_patterns,
     excluded_namespace_patterns |-> crit.excluded_namespace_patterns,
     extra_labels |-> [i \in 1..Len(crit.extra_labels) |->
                          LabelEntry(TRUE, crit.extra_labels[i].name,
                                     crit.extra_labels[i].regex)]]

\* Faulty variant of validate_value: a pattern that does not compile rejects
validate_value_fails_closed(extra_label, value) ==
    IF extra_label.regex.kind = "none" THEN TRUE
    ELSE re_match(extra_label.regex, value) = "match"

\* ExtraLabel.validate_value: no pattern validates everything, and so does a
\* pattern that does not compile
validate_value(extra_label, value) ==
    IF extra_label.regex.kind = "none" THEN TRUE
    ELSE LET r == re_match(extra_label.regex, value)
         IN  IF r = "re.error" THEN TRUE ELSE r = "match"

\* The loop `for pattern in patterns: if re.match(pattern, s): return True`
\* from entry i on: "T", "F" (list exhausted) or "re.error"
RECURSIVE AnyPatternMatches(_, _, _)
AnyPatternMatches(patterns, s, i) ==
    IF i > Len(patterns) THEN "F"
    ELSE LET r == re_match(patterns[i], s)
         IN  IF r = "re.error" THEN "re.error"
             ELSE IF r = "match" THEN "T"
             ELSE AnyPatternMatches(patterns, s, i + 1)

\* Faulty variant of is_cluster_protected: a pattern that does not compile
\* protects nothing
is_cluster_protected_ignores_errors(crit, cluster_name, namespace) ==
    LET byName == AnyPatternMatches(crit.protected_cluster_patterns, cluster_name, 1)
        byNamespace == AnyPatternMatches(crit.excluded_namespace_patterns, namespace, 1)
    IN  IF byName = "T" \/ byNamespace = "T" THEN "T" ELSE "F"

\* ConfigManager.is_cluster_protected: names first, then namespaces
is_cluster_protected(crit, cluster_name, namespace) ==
    LET byName == AnyPatternMatches(crit.protected_cluster_patterns, cluster_name, 1)
    IN  IF byName # "F" THEN byName
        ELSE AnyPatternMatches(crit.excluded_namespace_patterns, namespace, 1)

MissingLabelMsg(extra_label) ==
    <<"Missing", "required", "label", "'", extra_label.name, "'">>

MismatchMsg(extra_label, value) ==
    <<"Label", "'", extra_label.name, "'", "value", "'">> \o value
        \o <<"'", "does", "not", "match", "pattern", "'",
             PatternText(extra_label.regex), "'">>

\* ConfigManager.validate_extra_labels: the error messages, in the order of
\* extra_labels, from entry i on
RECURSIVE ExtraLabelErrors(_, _, _)
ExtraLabelErrors(extra_labels, labels, i) ==
    IF i > Len(extra_labels) THEN <<>>
    ELSE LET e == extra_labels[i]
             label_value == labels[e.name]
             rest == ExtraLabelErrors(extra_labels, labels, i + 1)
         IN  IF label_value = Absent THEN <<MissingLabelMsg(e)>> \o rest
             ELSE IF ~validate_value(e, label_value)
                  THEN <<MismatchMsg(e, label_value)>> \o rest
             ELSE rest

validate_extra_labels(crit, labels) == ExtraLabelErrors(crit.extra_labels, labels, 1)

-----------------------------------------------------------------------------
(* cluster_manager.py: expiry *)

HoursPerDay == 24
DaysPerWeek == 7
DaysPerYear == 365

\* datetime.max, as the index of its hour: date.max is day 3652059
DatetimeMax == 3652059 * HoursPerDay - 1

Units == {"h", "d", "w", "y"}

\* timedelta of `number` units, in hours
Delta(number, unit) ==
    CASE unit = "h" -> number
      [] unit = "d" -> number * HoursPerDay
      [] unit = "w" -> number * DaysPerWeek * HoursPerDay
      [] unit = "y" -> number * DaysPerYear * HoursPerDay

\* re.match(r'^(\d+)([dhwy])$', s): one or more digits, then one unit letter
MatchesExpiresFormat(s) ==
    /\ Len(s) >= 2
    /\ s[Len(s)] \in Units
    /\ \A i \in 1..(Len(s) - 1) : s[i] \in Digits

InvalidFormatMsg ==
    <<"Invalid", "format.", "Expected", "format:", "<number><unit>", "where",
      "unit", "is", "d/w/h/y", "(e.g.)">>

Timestamp(k, hour) == [kind |-> k, t |-> hour]

\* The text of a creationTimestamp, as tokens
TimestampText(ts) ==
    CASE ts.kind = "garbage" -> <<"not-a-date">>
      [] ts.kind = "Z" -> <<"<date>", "T", "<time>", "Z">>
      [] ts.kind = "offset" -> <<"<date>", "T", "<time>", "+00:00">>
      [] ts.kind = "naive" -> <<"<date>", "T", "<time>">>

\* creation_timestamp[:10]
DateText(ts) == IF ts.kind = "garbage" THEN "not-a-date" ELSE "<date>"

\* datetime.fromisoformat, after the 'Z' is cut off: a naive datetime, an aware
\* one when the text carries a UTC offset, ValueError otherwise
ParseTimestamp(ts) ==
    CASE ts.kind = "garbage" -> [err |-> "ValueError"]
      [] ts.kind = "offset" -> [err |-> None, t |-> ts.t, aware |-> TRUE]
      [] OTHER -> [err |-> None, t |-> ts.t, aware |-> FALSE]

\* ClusterManager._parse_expires_label
parse_expires_label(expires_value, creation_timestamp) ==
    LET v == Lower(Strip(expires_value))
    IN  IF ~MatchesExpiresFormat(v)
        THEN [err |-> "ValueError", msg |-> InvalidFormatMsg]
        ELSE LET number == ToInt(SubSeq(v, 1, Len(v) - 1))
                 delta == Delta(number, v[Len(v)])
                 creation_time == ParseTimestamp(creation_timestamp)
             IN  IF creation_time.err # None
                 THEN [err |-> "ValueError",
                       msg |-> <<"Invalid", "creation", "timestamp", "format:">>
                               \o TimestampText(creation_timestamp)
                               \o <<"(", "Invalid", "isoformat", "string", ")">>]
                 ELSE IF creation_time.t + delta > DatetimeMax
                 THEN [err |-> "OverflowError"]
                 ELSE [err |-> None, t |-> creation_time.t + delta,
                       aware |-> creation_time.aware]

-----------------------------------------------------------------------------
(* cluster_manager.py: the deletion decision *)

RECURSIVE ToDigits(_)
ToDigits(n) ==
    LET d == <<"0", "1", "2", "3", "4", "5", "6", "7", "8", "9">>
    IN  IF n < 10 THEN <<d[n + 1]>> ELSE ToDigits(n \div 10) \o <<d[(n % 10) + 1]>>

HostCluster == <<"host-cluster">>

Returned(d, r) == [raised |-> None, should_delete |-> d, reason |-> r]
Raised(e) == [raised |-> e, should_delete |-> FALSE, reason |-> <<>>]

ManagementReason == <<"Cluster", "is", "a", "management", "cluster">>
ProtectedReason(kc_name) ==
    <<"KommanderCluster">> \o kc_name \o <<"is", "protected", "by", "configuration">>
MissingExpiresReason == <<"Missing", "'", "expires", "'", "label">>
MissingTimestampReason ==
    <<"Missing", "creationTimestamp", "in", "KommanderCluster", "metadata">>
InvalidExpiresReason(expires_value, msg) ==
    <<"Invalid", "'", "expires", "'", "label", "format:">> \o expires_value
        \o <<"(">> \o msg \o <<")">>
ExpiredReason(creation_timestamp, expires_value) ==
    <<"Cluster", "has", "expired", "(", "created:", DateText(creation_timestamp), ",",
      "expires", "after:">> \o expires_value \o <<")">>

\* remaining_time.days and remaining_time.seconds // 3600 of a positive
\* remainder of `hours` hours
NotExpiredReason(hours) ==
    LET days_remaining == hours \div HoursPerDay
        hours_remaining == hours % HoursPerDay
        time_remaining == IF days_remaining > 0
                          THEN ToDigits(days_remaining) \o <<"d">>
                          ELSE ToDigits(hours_remaining) \o <<"h">>
    IN  <<"Cluster", "has", "not", "expired", "yet", "(", "expires", "in", "~">>
            \o time_remaining \o <<")">>

\* Lines 217-241: the try block around the expiry computation.  Only
\* ValueError is caught; comparing the naive datetime.now() with an aware
\* expiry raises TypeError, and an expiry past datetime.max OverflowError.
ExpiryDecision(kc, clock) ==
    LET expires_value == kc.labels["expires"]
        creation_timestamp == kc.creationTimestamp
    IN  IF creation_timestamp.kind = "none"
        THEN Returned(TRUE, MissingTimestampReason)
        ELSE LET expiry_time == parse_expires_label(expires_value, creation_timestamp)
             IN  IF expiry_time.err = "ValueError"
                 THEN Returned(TRUE, InvalidExpiresReason(expires_value, expiry_time.msg))
                 ELSE IF expiry_time.err = "OverflowError"
                 THEN Raised("OverflowError")
                 ELSE IF expiry_time.aware
                 THEN Raised("TypeError")
                 ELSE IF clock >= expiry_time.t
                 THEN Returned(TRUE, ExpiredReason(creation_timestamp, expires_value))
                 ELSE Returned(FALSE, NotExpiredReason(expiry_time.t - clock))

\* Faulty variant of LabelsDecision: the last validation error is reported
LabelsDecision_last_error(crit, kc, clock) ==
    LET extra_label_errors == validate_extra_labels(crit, kc.labels)
    IN  IF extra_label_errors # <<>>
        THEN Returned(TRUE, extra_label_errors[Len(extra_label_errors)])
        ELSE ExpiryDecision(kc, clock)

\* Lines 211-241: required labels, then expiry
LabelsDecision(crit, kc, clock) ==
    LET extra_label_errors == validate_extra_labels(crit, kc.labels)
    IN  IF extra_label_errors # <<>>
        THEN Returned(TRUE, extra_label_errors[1])
        ELSE ExpiryDecision(kc, clock)

\* Faulty variant of PolicyDecision: the required labels are validated before the
\* presence of 'expires' is checked
PolicyDecision_labels_first(crit, kc, clock) ==
    LET protected == is_cluster_protected(crit, kc.name, kc.namespace)
        extra_label_errors == validate_extra_labels(crit, kc.labels)
    IN  IF protected = "re.error" THEN Raised("re.error")
        ELSE IF protected = "T" THEN Returned(FALSE, ProtectedReason(kc.name))
        ELSE IF extra_label_errors # <<>> THEN Returned(TRUE, extra_label_errors[1])
        ELSE IF kc.labels["expires"] = Absent THEN Returned(TRUE, MissingExpiresReason)
        ELSE ExpiryDecision(kc, clock)

\* Lines 200-215: configured protection, then the 'expires' label
PolicyDecision(crit, kc, clock) ==
    LET protected == is_cluster_protected(crit, kc.name, kc.namespace)
    IN  IF protected = "re.error" THEN Raised("re.error")
        ELSE IF protected = "T" THEN Returned(FALSE, ProtectedReason(kc.name))
        ELSE IF kc.labels["expires"] = Absent THEN Returned(TRUE, MissingExpiresReason)
        ELSE LabelsDecision(crit, kc, clock)

\* Faulty variant of kommander_cluster_matches_criteria: the management-cluster rule
\* is evaluated after the configured protection
matches_criteria_policy_first(crit, kc, clock) ==
    LET protected == is_cluster_protected(crit, kc.name, kc.namespace)
    IN  IF protected = "re.error" THEN Raised("re.error")
        ELSE IF protected = "T" THEN Returned(FALSE, ProtectedReason(kc.name))
        ELSE IF kc.name = HostCluster THEN Returned(FALSE, ManagementReason)
        ELSE PolicyDecision(crit, kc, clock)

\* ClusterManager.kommander_cluster_matches_criteria
kommander_cluster_matches_criteria(crit, kc, clock) ==
    IF kc.name = HostCluster
    THEN Returned(FALSE, ManagementReason)
    ELSE PolicyDecision(crit, kc, clock)

-----------------------------------------------------------------------------
(* The inputs: policy documents, cluster records, clock readings *)

SeqsUpTo(S, n) == UNION {[1..k -> S] : k \in 0..n}

Names == {HostCluster, <<"prod", "-1">>, <<"dev">>}
Namespaces == {<<"kube", "-system">>, <<"default">>}

NamePatterns == {LitPattern(<<"prod">>, FALSE), InvalidPattern}
NamespacePatterns == {LitPattern(<<"kube">>, FALSE), InvalidPattern}
ExtraLabels == {ExtraLabel("owner", NoPattern),
                ExtraLabel("cost_centre", DigitsPattern)}

\* What ConfigManager._parse_config can load
Policies ==
    [protected_cluster_patterns : SeqsUpTo(NamePatterns, MaxPatterns),
     excluded_namespace_patterns : SeqsUpTo(NamespacePatterns, MaxNsPatterns),
     extra_labels : SeqsUpTo(ExtraLabels, MaxExtraLabels)]

EmptyPolicy == [protected_cluster_patterns |-> <<>>,
                excluded_namespace_patterns |-> <<>>,
                extra_labels |-> <<>>]

\* 2025-06-23T00:00, the creation instant of the modelled clusters
Created == 739425 * HoursPerDay

ExpiresValues == {Absent, <<"1", "h">>, <<"expired">>, <<"9", "9", "9", "9", "y">>}
OwnerValues == {Absent, <<"alice">>}
CostCentreValues == {Absent, <<"4", "2">>, <<"x">>}

LabelSets ==
    {[l \in {"expires", "owner", "cost_centre"} |->
        CASE l = "expires" -> e [] l = "owner" -> o [] l = "cost_centre" -> c] :
     e \in ExpiresValues, o \in OwnerValues, c \in CostCentreValues}

Timestamps == {NoTimestamp, Timestamp("Z", Created), Timestamp("offset", Created),
               Timestamp("garbage", 0)}

\* spec.clusterRef.capiCluster of a KommanderCluster, and whether the
\* referenced CAPI cluster exists
\* referenced CAPI cluster answers a GET: "found", "404" or "error"
CapiRef(n, ns, e) == [name |-> n, namespace |-> ns, get |-> e]
ResolvedRef == CapiRef(<<"capi">>, <<"default">>, "found")

KommanderCluster(n, ns, l, ts, ref) ==
    [name |-> n, namespace |-> ns, labels |-> l, creationTimestamp |-> ts, capi |-> ref]

DecideClusters ==
    {KommanderCluster(n, ns, l, ts, ResolvedRef) :
        n \in Names, ns \in Namespaces, l \in LabelSets, ts \in Timestamps}

NoCluster == KommanderCluster(<<>>, <<>>, [l \in {"expires", "owner", "cost_centre"} |-> Absent],
                              NoTimestamp, ResolvedRef)
NoDecision == Raised("pending")

-----------------------------------------------------------------------------
(* Specification of one evaluation: a policy is loaded, then one cluster    *)
(* record is decided at one clock reading                                   *)

\* The defaults of --warning-threshold and --critical-threshold
DefaultThresholds == <<80, 95>>

RunIdle ==
    /\ inventory = <<>>
    /\ idx = 0
    /\ clusters_to_delete = <<>>
    /\ excluded_clusters = <<>>
    /\ critical_clusters = <<>>
    /\ warning_clusters = <<>>
    /\ current_time = Created
    /\ delete_calls = <<>>
    /\ notification_history = None
    /\ deleted_count = 0
    /\ failed_count = 0
    /\ clear_calls = <<>>
    /\ sent = <<>>
    /\ runs = NoRuns
    /\ listing = NoListing
    /\ notify_backend = None

InitDecide ==
    /\ config_data \in {DocumentOf(crit) : crit \in Policies}
    /\ criteria = _parse_config(config_data)
    /\ now = Created
    /\ cluster = NoCluster
    /\ decision = NoDecision
    /\ command = "decide"
    /\ pc = "loaded"
    /\ thresholds = DefaultThresholds
    /\ history = EmptyStore
    /\ RunIdle

Decide(kc, clock) ==
    /\ pc = "loaded"
    /\ cluster' = kc
    /\ now' = clock
    /\ decision' = kommander_cluster_matches_criteria(criteria, kc, clock)
    /\ pc' = "decided"
    /\ UNCHANGED <<config_data, criteria, command, inventory, idx, clusters_to_delete, excluded_clusters,
                   critical_clusters, warning_clusters, thresholds, current_time,
                   delete_calls, history, delete_vars, notify_vars, listing, notify_backend>>

NextDecide ==
    /\ pc = "loaded"
    /\ \E kc \in DecideClusters, h \in 0..MaxNow : Decide(kc, Created + h)

SpecDecide == InitDecide /\ [][NextDecide]_vars

-----------------------------------------------------------------------------
(* Specification of the required labels: a policy document is loaded, then   *)
(* one cluster record is decided                                             *)

LabelRegexes == {NoPattern, DigitsPattern, InvalidPattern}

RequiredLabels == {ExtraLabel(n, r) : n \in {"owner", "cost_centre"}, r \in LabelRegexes}

\* Policies without protection patterns
LabelPolicies ==
    {[EmptyPolicy EXCEPT !.extra_labels = l] : l \in SeqsUpTo(RequiredLabels, MaxExtraLabels)}

LabelClusters ==
    {KommanderCluster(<<"dev">>, <<"default">>, l, Timestamp("Z", Created), ResolvedRef) :
        l \in LabelSets}

\* ConfigManager.__init__, line 64: the criteria before the file is read
InitLabels ==
    /\ config_data \in {DocumentOf(crit) : crit \in LabelPolicies}
    /\ criteria = EmptyPolicy
    /\ now = Created
    /\ cluster = NoCluster
    /\ decision = NoDecision
    /\ command = "decide"
    /\ pc = "load"
    /\ thresholds = DefaultThresholds
    /\ history = EmptyStore
    /\ RunIdle

\* ConfigManager.load_config
LoadConfig ==
    /\ pc = "load"
    /\ criteria' = _parse_config(config_data)
    /\ pc' = "loaded"
    /\ UNCHANGED <<config_data, now, cluster, decision, command, inventory, idx,
                   clusters_to_delete, excluded_clusters, critical_clusters,
                   warning_clusters, thresholds, current_time, delete_calls, history,
                   delete_vars, notify_vars, listing, notify_backend>>

NextLabels ==
    \/ LoadConfig
    \/ \E kc \in LabelClusters : Decide(kc, Created)

SpecLabels == InitLabels /\ [][NextLabels]_vars

-----------------------------------------------------------------------------
(* cluster_manager.py: get_clusters_with_exclusions *)

\* Python truthiness of an optional string
Truthy(v) == v # Absent /\ v # <<>>

\* ClusterManager.verify_capi_cluster_exists: True when the GET succeeds,
\* False on 404 and on every other ApiException
verify_capi_cluster_exists(ref) == ref.get = "found"

CombinedInfo(kc) ==
    [kommander_cluster |-> kc,
     capi_cluster_name |-> kc.capi.name,
     capi_cluster_namespace |-> kc.capi.namespace,
     labels |-> kc.labels]

NotFoundReason(cluster_name) ==
    <<"Referenced", "CAPI", "cluster">> \o cluster_name \o <<"not", "found">>
NoReferenceReason == <<"No", "valid", "CAPI", "cluster", "reference">>

Entry(info, r) == [info |-> info, reason |-> r]

\* Lines 419-444 without the existence check of line 435
PartitionEntry_unverified(kc, d) ==
    LET combined_info == CombinedInfo(kc)
    IN  IF d.should_delete
        THEN IF Truthy(kc.capi.name) /\ Truthy(kc.capi.namespace)
             THEN [list |-> "delete", entry |-> Entry(combined_info, d.reason)]
             ELSE [list |-> "excluded", entry |-> Entry(combined_info, NoReferenceReason)]
        ELSE [list |-> "excluded", entry |-> Entry(combined_info, d.reason)]

\* Lines 419-444: where one evaluated KommanderCluster goes
PartitionEntry(kc, d) ==
    LET cluster_name == kc.capi.name
        cluster_namespace == kc.capi.namespace
        combined_info == CombinedInfo(kc)
    IN  IF d.should_delete
        THEN IF Truthy(cluster_name) /\ Truthy(cluster_namespace)
             THEN IF verify_capi_cluster_exists(kc.capi)
                  THEN [list |-> "delete", entry |-> Entry(combined_info, d.reason)]
                  ELSE [list |-> "excluded",
                        entry |-> Entry(combined_info, NotFoundReason(cluster_name))]
             ELSE [list |-> "excluded", entry |-> Entry(combined_info, NoReferenceReason)]
        ELSE [list |-> "excluded", entry |-> Entry(combined_info, d.reason)]

-----------------------------------------------------------------------------
(* notification_manager.py: get_clusters_for_notification *)

\* Python floats are IEEE 754 doubles: a 53-bit significand, every operation
\* rounded to nearest, ties to even.  A positive double is the record
\* [m |-> its 53 significand bits, first bit 1, x |-> the exponent of the last
\* bit], of value m * 2^x; zero has no bits.
MantissaBits == 53
FloatZero == [m |-> <<>>, x |-> 0]

\* Big numbers are sequences of binary digits, most significant first,
\* handled ChunkBits digits at a time
ChunkBits == 8
ChunkBase == 256

RECURSIVE BitsOf(_)
BitsOf(n) == IF n = 0 THEN <<>> ELSE BitsOf(n \div 2) \o <<n % 2>>

RECURSIVE ValueOf(_)
ValueOf(bits) ==
    IF bits = <<>> THEN 0
    ELSE 2 * ValueOf(SubSeq(bits, 1, Len(bits) - 1)) + bits[Len(bits)]

Zeros(n) == [i \in 1..n |-> 0]

PadBits(n, width) == Zeros(width - Len(BitsOf(n))) \o BitsOf(n)

StripZeros(bits) ==
    IF \A i \in 1..Len(bits) : bits[i] = 0 THEN <<>>
    ELSE LET first == CHOOSE i \in 1..Len(bits) :
                          bits[i] = 1 /\ \A j \in 1..(i - 1) : bits[j] = 0
         IN  SubSeq(bits, first, Len(bits))

\* bits + 1
Increment(bits) ==
    IF \A i \in 1..Len(bits) : bits[i] = 1 THEN <<1>> \o Zeros(Len(bits))
    ELSE LET last == CHOOSE i \in 1..Len(bits) :
                         bits[i] = 0 /\ \A j \in (i + 1)..Len(bits) : bits[j] = 1
         IN  [i \in 1..Len(bits) |-> IF i < last THEN bits[i]
                                     ELSE IF i = last THEN 1 ELSE 0]

\* The double nearest to bits * 2^x, where sticky tells that the exact value
\* lies strictly above bits * 2^x
RoundBits(bits, x, sticky) ==
    LET len == Len(bits)
    IN  IF len = 0 THEN FloatZero
        ELSE IF len <= MantissaBits
        THEN [m |-> bits \o Zeros(MantissaBits - len), x |-> x - (MantissaBits - len)]
        ELSE LET keep == SubSeq(bits, 1, MantissaBits)
                 guard == bits[MantissaBits + 1]
                 below == sticky \/ \E i \in (MantissaBits + 2)..len : bits[i] = 1
                 up == guard = 1 /\ (below \/ keep[MantissaBits] = 1)
                 rounded == IF up THEN Increment(keep) ELSE keep
             IN  IF Len(rounded) > MantissaBits
                 THEN [m |-> SubSeq(rounded, 1, MantissaBits),
                       x |-> x + (len - MantissaBits) + 1]
                 ELSE [m |-> rounded, x |-> x + (len - MantissaBits)]

\* Long division: the first n chunks of binary digits of r / d after the
\* point, and the remainder left after them (0 <= r < d < 2^23)
RECURSIVE FractionOf(_, _, _)
FractionOf(r, d, n) ==
    IF n = 0 THEN <<>>
    ELSE PadBits((r * ChunkBase) \div d, ChunkBits)
         \o FractionOf((r * ChunkBase) % d, d, n - 1)

RECURSIVE RemainderOf(_, _, _)
RemainderOf(r, d, n) ==
    IF n = 0 THEN r ELSE RemainderOf((r * ChunkBase) % d, d, n - 1)

\* Chunks carried after the point: enough for quotients above 2^-23
FractionChunks == (MantissaBits \div ChunkBits) + 4

\* float(a) / float(b) for 0 <= a and 0 < b
FloatDiv(a, b) ==
    RoundBits(StripZeros(BitsOf(a \div b) \o FractionOf(a % b, b, FractionChunks)),
              0 - FractionChunks * ChunkBits,
              RemainderOf(a % b, b, FractionChunks) # 0)

\* bits * factor + carry, for bits made of k chunks
RECURSIVE TimesChunks(_, _, _, _)
TimesChunks(bits, k, factor, carry) ==
    IF k = 0 THEN BitsOf(carry)
    ELSE LET product == ValueOf(SubSeq(bits, (k - 1) * ChunkBits + 1, k * ChunkBits))
                            * factor + carry
         IN  TimesChunks(bits, k - 1, factor, product \div ChunkBase)
             \o PadBits(product % ChunkBase, ChunkBits)

\* f * 100
FloatTimes100(f) ==
    IF f.m = <<>> THEN f
    ELSE LET chunks == (MantissaBits + ChunkBits - 1) \div ChunkBits
             padded == Zeros(chunks * ChunkBits - MantissaBits) \o f.m
         IN  RoundBits(StripZeros(TimesChunks(padded, chunks, 100, 0)), f.x, FALSE)

\* float(n) for a natural number n
FloatOfInt(n) == RoundBits(BitsOf(n), 0, FALSE)

\* f >= g
FloatGE(f, g) ==
    IF g.m = <<>> THEN TRUE
    ELSE IF f.m = <<>> THEN FALSE
    ELSE IF f.x # g.x THEN f.x > g.x
    ELSE \/ f.m = g.m
         \/ \E i \in 1..MantissaBits : /\ f.m[i] > g.m[i]
                                       /\ \A j \in 1..(i - 1) : f.m[j] = g.m[j]

\* 100.0
Pct100 == FloatOfInt(100)

SecondsPerHour == 3600

Notification(info, pct, expiry) == [info |-> info, elapsed |-> pct, expiry |-> expiry]

MissingLabelKeywords ==
    {<<"missing", "required", "label">>, <<"missing", "expires", "label">>,
     <<"does", "not", "match", "pattern">>, <<"invalid", "expires", "format">>}

\* Lines 67-102 with the handler of lines 94-96 skipping the cluster
ClassifyDeleted_skips_unparsable(e, clock) ==
    LET cluster_info == e.info
        expires_value == cluster_info.labels["expires"]
        reason_lower == Lower(e.reason)
        is_missing_labels == \E kw \in MissingLabelKeywords : Contains(reason_lower, kw)
        creation_timestamp == cluster_info.kommander_cluster.creationTimestamp
        expiry_time == parse_expires_label(expires_value, creation_timestamp)
    IN  IF ~is_missing_labels /\ Contains(reason_lower, <<"expired">>)
           /\ Truthy(expires_value) /\ creation_timestamp.kind # "none"
        THEN IF expiry_time.err = None
             THEN [raised |-> None,
                   add |-> <<Notification(cluster_info, Pct100, expiry_time.t)>>]
             ELSE [raised |-> None, add |-> <<>>]
        ELSE [raised |-> None, add |-> <<Notification(cluster_info, Pct100, clock)>>]

\* Lines 67-102: what one entry of clusters_to_delete adds to
\* critical_clusters; clock is current_time of line 64
ClassifyDeleted(e, clock) ==
    LET cluster_info == e.info
        expires_value == cluster_info.labels["expires"]
        reason_lower == Lower(e.reason)
        is_missing_labels == \E kw \in MissingLabelKeywords : Contains(reason_lower, kw)
        creation_timestamp == cluster_info.kommander_cluster.creationTimestamp
    IN  IF is_missing_labels
        THEN [raised |-> None, add |-> <<Notification(cluster_info, Pct100, clock)>>]
        ELSE IF Contains(reason_lower, <<"expired">>)
        THEN IF Truthy(expires_value)
             THEN IF creation_timestamp.kind # "none"
                  THEN LET expiry_time == parse_expires_label(expires_value, creation_timestamp)
                       IN  IF expiry_time.err = "OverflowError"
                           THEN [raised |-> "OverflowError", add |-> <<>>]
                           ELSE IF expiry_time.err = "ValueError"
                           THEN [raised |-> None,
                                 add |-> <<Notification(cluster_info, Pct100, clock)>>]
                           ELSE [raised |-> None,
                                 add |-> <<Notification(cluster_info, Pct100, expiry_time.t)>>]
                  ELSE [raised |-> None, add |-> <<>>]
             ELSE [raised |-> None, add |-> <<Notification(cluster_info, Pct100, clock)>>]
        ELSE [raised |-> None, add |-> <<Notification(cluster_info, Pct100, clock)>>]

\* Lines 139-140 for total_duration > 0, both durations in seconds
ElapsedPercentage(elapsed_duration, total_duration) ==
    IF elapsed_duration <= 0 THEN FloatZero
    ELSE LET elapsed_percentage == FloatTimes100(FloatDiv(elapsed_duration, total_duration))
         IN  IF FloatGE(elapsed_percentage, Pct100) THEN Pct100 ELSE elapsed_percentage

\* Lines 142-146
Severity(pct, warning_threshold, critical_threshold) ==
    IF FloatGE(pct, FloatOfInt(critical_threshold)) THEN "critical"
    ELSE IF FloatGE(pct, FloatOfInt(warning_threshold)) THEN "warning"
    ELSE "none"

NotClassified == [raised |-> None, severity |-> "none", add |-> <<>>]

\* Lines 105-150 without the filter of lines 107-108
ClassifyExcluded_any_reason(e, warning_threshold, critical_threshold, clock) ==
    LET cluster_info == e.info
        expires_value == cluster_info.labels["expires"]
        creation_timestamp == cluster_info.kommander_cluster.creationTimestamp
        expiry_time == parse_expires_label(expires_value, creation_timestamp)
    IN  IF ~Truthy(expires_value) \/ creation_timestamp.kind = "none" THEN NotClassified
        ELSE IF expiry_time.err # None THEN NotClassified
        ELSE IF expiry_time.aware THEN NotClassified
        ELSE LET total_duration ==
                     (expiry_time.t - creation_timestamp.t) * SecondsPerHour
                 elapsed_duration == (clock - creation_timestamp.t) * SecondsPerHour
                 elapsed_percentage == ElapsedPercentage(elapsed_duration, total_duration)
                 sev == Severity(elapsed_percentage, warning_threshold,
                                 critical_threshold)
             IN  IF total_duration > 0 /\ sev # "none"
                 THEN [raised |-> None, severity |-> sev,
                       add |-> <<Notification(cluster_info, elapsed_percentage,
                                              expiry_time.t)>>]
                 ELSE NotClassified

\* Lines 105-150: what one entry of excluded_clusters adds, and to which list
ClassifyExcluded(e, warning_threshold, critical_threshold, clock) ==
    LET cluster_info == e.info
        expires_value == cluster_info.labels["expires"]
        creation_timestamp == cluster_info.kommander_cluster.creationTimestamp
    IN  IF ~Contains(e.reason, <<"has", "not", "expired", "yet">>) THEN NotClassified
        ELSE IF ~Truthy(expires_value) THEN NotClassified
        ELSE IF creation_timestamp.kind = "none" THEN NotClassified
        ELSE LET expiry_time == parse_expires_label(expires_value, creation_timestamp)
             IN  IF expiry_time.err = "OverflowError"
                 THEN [raised |-> "OverflowError", severity |-> "none", add |-> <<>>]
                 ELSE IF expiry_time.err = "ValueError" THEN NotClassified
                 ELSE IF expiry_time.aware THEN NotClassified
                 ELSE LET creation_time == ParseTimestamp(creation_timestamp)
                          total_duration ==
                              (expiry_time.t - creation_time.t) * SecondsPerHour
                          elapsed_duration == (clock - creation_time.t) * SecondsPerHour
                          elapsed_percentage ==
                              ElapsedPercentage(elapsed_duration, total_duration)
                      IN  IF total_duration > 0
                          THEN LET sev == Severity(elapsed_percentage, warning_threshold,
                                                   critical_threshold)
                               IN  [raised |-> None, severity |-> sev,
                                    add |-> IF sev = "none" THEN <<>>
                                            ELSE <<Notification(cluster_info,
                                                                elapsed_percentage,
                                                                expiry_time.t)>>]
                          ELSE NotClassified

\* The loop of lines 67-102 over clusters_to_delete, from entry i on
RECURSIVE CriticalOfDeleted(_, _, _)
CriticalOfDeleted(to_delete, clock, i) ==
    IF i > Len(to_delete) THEN [raised |-> None, add |-> <<>>]
    ELSE LET one == ClassifyDeleted(to_delete[i], clock)
             rest == CriticalOfDeleted(to_delete, clock, i + 1)
         IN  IF one.raised # None THEN one
             ELSE IF rest.raised # None THEN rest
             ELSE [raised |-> None, add |-> one.add \o rest.add]

\* The loop of lines 105-150 over excluded_clusters, from entry i on: the
\* additions of severity sev
RECURSIVE OfExcluded(_, _, _, _, _, _)
OfExcluded(excluded, sev, warning_threshold, critical_threshold, clock, i) ==
    IF i > Len(excluded) THEN [raised |-> None, add |-> <<>>]
    ELSE LET one == ClassifyExcluded(excluded[i], warning_threshold, critical_threshold,
                                     clock)
             rest == OfExcluded(excluded, sev, warning_threshold, critical_threshold,
                                clock, i + 1)
         IN  IF one.raised # None THEN [raised |-> one.raised, add |-> <<>>]
             ELSE IF rest.raised # None THEN rest
             ELSE [raised |-> None,
                   add |-> (IF one.severity = sev THEN one.add ELSE <<>>) \o rest.add]

\* Faulty variant of ThresholdsValid: the thresholds are not compared
ThresholdsValid_unordered(warning_threshold, critical_threshold) ==
    /\ ~(warning_threshold < 0 \/ warning_threshold > 100)
    /\ ~(critical_threshold < 0 \/ critical_threshold > 100)

\* Lines 48-56
ThresholdsValid(warning_threshold, critical_threshold) ==
    /\ ~(warning_threshold < 0 \/ warning_threshold > 100)
    /\ ~(critical_threshold < 0 \/ critical_threshold > 100)
    /\ ~(warning_threshold >= critical_threshold)

-----------------------------------------------------------------------------
(* notification_history.py: the Redis-backed notification history. A Redis
   set that loses its last member no longer exists, so the database is the
   set of its (key, member) pairs. A record lives ttl_days = 30 days
   (line 78); the modelled clock spans a few hours, so no record expires. *)

Severities == {"critical", "warning"}

\* str() of a value inside an f-string
Str(v) == IF v = Absent THEN <<"None">> ELSE v

KeyPrefix == <<"notifications", ":", "cluster", ":">>

_get_cluster_key(cluster_name, namespace) ==
    KeyPrefix \o Str(namespace) \o <<":">> \o Str(cluster_name)

\* sismember
\* Faulty variant of has_been_notified: a record at any severity counts
has_been_notified_at_any_severity(h, cluster_name, namespace, severity) ==
    \E p \in h : p[1] = _get_cluster_key(cluster_name, namespace)

has_been_notified(h, cluster_name, namespace, severity) ==
    <<_get_cluster_key(cluster_name, namespace), severity>> \in h

\* Faulty variant of mark_as_notified: the member is not added
mark_as_notified_forgets(h, cluster_name, namespace, severity) == h

\* sadd, then expire
mark_as_notified(h, cluster_name, namespace, severity) ==
    h \cup {<<_get_cluster_key(cluster_name, namespace), severity>>}

\* Faulty variant of clear_cluster_history: only the warning member goes
clear_cluster_history_warning_only(h, cluster_name, namespace) ==
    h \ {<<_get_cluster_key(cluster_name, namespace), "warning">>}

\* delete
clear_cluster_history(h, cluster_name, namespace) ==
    {p \in h : p[1] # _get_cluster_key(cluster_name, namespace)}

\* str.split
RECURSIVE Split(_, _)
Split(s, sep) ==
    IF \A i \in 1..Len(s) : s[i] # sep THEN <<s>>
    ELSE LET i == CHOOSE i \in 1..Len(s) :
                      s[i] = sep /\ \A j \in 1..(i - 1) : s[j] # sep
         IN  <<SubSeq(s, 1, i - 1)>> \o Split(SubSeq(s, i + 1, Len(s)), sep)

\* str.join
RECURSIVE Join(_, _)
Join(parts, sep) ==
    IF parts = <<>> THEN <<>>
    ELSE IF Len(parts) = 1 THEN parts[1]
    ELSE parts[1] \o <<sep>> \o Join(Tail(parts), sep)

\* keys("notifications:cluster:*")
StoredKeys(h) == {p[1] : p \in h}

\* get_all_notified_clusters, lines 174-201: what the loop appends
get_all_notified_clusters(h) ==
    {[cluster_name |-> Join(SubSeq(Split(key, ":"), 4, Len(Split(key, ":"))), ":"),
      namespace |-> Split(key, ":")[3]] :
        key \in {k \in StoredKeys(h) : Len(Split(k, ":")) >= 4}}

-----------------------------------------------------------------------------
(* A whole run of delete-clusters (with and without --delete) or notify over
   the KommanderClusters the API server returns *)

Commands == {"delete", "dry-run", "notify"}

ThresholdPairs == {DefaultThresholds, <<0, 50>>, <<50, 100>>, <<95, 80>>}

RunPolicies ==
    {EmptyPolicy,
     [protected_cluster_patterns |-> <<LitPattern(<<"prod">>, FALSE)>>,
      excluded_namespace_patterns |-> <<>>,
      extra_labels |-> <<ExtraLabel("owner", NoPattern)>>],
     [protected_cluster_patterns |-> <<>>,
      excluded_namespace_patterns |-> <<>>,
      extra_labels |-> <<ExtraLabel("owner", DigitsPattern)>>],
     [protected_cluster_patterns |-> <<InvalidPattern>>,
      excluded_namespace_patterns |-> <<>>,
      extra_labels |-> <<>>]}

\* The documents of RunPolicies, and one whose extra_labels list holds a bare
\* string and a mapping without a name
RunDocuments ==
    {DocumentOf(crit) : crit \in RunPolicies}
        \cup {[DocumentOf(EmptyPolicy) EXCEPT
                  !.extra_labels = <<LabelEntry(FALSE, None, NoPattern),
                                     LabelEntry(TRUE, None, DigitsPattern)>>]}

\* A KommanderCluster without a spec.clusterRef.capiCluster dictionary
AttachedRef == [name |-> Absent, namespace |-> Absent, get |-> "no capiCluster"]

\* isinstance(capi_cluster, dict) of list_all_kommander_clusters
HasCapiCluster(kc) == kc.capi # AttachedRef

RunLabels(e, o) == [expires |-> e, owner |-> o, cost_centre |-> Absent]

DevClusters ==
    {KommanderCluster(<<"dev">>, <<"default">>, RunLabels(e, o), ts, ref) :
        e \in {Absent, <<"1", "h">>, <<"2", "h">>, <<"expired">>, <<"9", "9", "9", "9", "y">>},
        o \in {Absent, <<"alice">>},
        ts \in {NoTimestamp, Timestamp("Z", Created), Timestamp("offset", Created)},
        ref \in {CapiRef(<<"dev">>, <<"default">>, "found"),
                 CapiRef(<<"dev">>, <<"default">>, "404"),
                 CapiRef(<<"dev">>, <<"default">>, "error"),
                 CapiRef(Absent, <<"default">>, "404"),
                 CapiRef(<<"dev">>, Absent, "404"),
                 AttachedRef}}

HostClusters ==
    {KommanderCluster(HostCluster, <<"default">>, RunLabels(e, Absent),
                      Timestamp("Z", Created), ref) :
        e \in {Absent, <<"1", "h">>},
        ref \in {CapiRef(HostCluster, <<"default">>, "found"),
                 CapiRef(Absent, Absent, "404")}}

ProdClusters ==
    {KommanderCluster(<<"prod", "-1">>, <<"default">>, RunLabels(e, <<"alice">>),
                      Timestamp("Z", Created), ref) :
        e \in {Absent, <<"1", "h">>},
        ref \in {CapiRef(<<"prod", "-1">>, <<"default">>, "found"),
                 CapiRef(<<"prod", "-1">>, <<"default">>, "404")}}

Present(kc) == kc # NoCluster

\* What list_namespaced_custom_object returns: objects of distinct names, at
\* most MaxClusters of them, in name order
Responses ==
    {SelectSeq(<<a, b, c>>, Present) :
        a \in DevClusters \cup {NoCluster},
        b \in HostClusters \cup {NoCluster},
        c \in ProdClusters \cup {NoCluster}}

\* list-clusters prints the two lists and returns (list_clusters.py:37-81)
AfterEvaluation ==
    CASE command = "notify" -> "classify"
      [] command = "list" -> "done"
      [] OTHER -> "delete"

\* delete-clusters --delete connects to Redis before it lists (main.py:235)
FirstStep ==
    CASE command = "notify" -> "validate"
      [] command = "delete" -> "connect"
      [] OTHER -> "list"

InitRun ==
    /\ config_data \in RunDocuments
    /\ criteria = _parse_config(config_data)
    /\ command \in Commands
    /\ thresholds \in (IF command = "notify" THEN ThresholdPairs ELSE {DefaultThresholds})
    /\ pc = FirstStep
    /\ now = Created
    /\ cluster = NoCluster
    /\ decision = NoDecision
    /\ history = EmptyStore
    /\ RunIdle

\* get_clusters_for_notification, lines 48-56
ValidateThresholds ==
    /\ pc = "validate"
    /\ pc' = IF ThresholdsValid(thresholds[1], thresholds[2]) THEN "list" ELSE "aborted"
    /\ UNCHANGED <<config_data, criteria, now, cluster, decision, command, inventory, idx,
                   clusters_to_delete, excluded_clusters, critical_clusters,
                   warning_clusters, thresholds, current_time, delete_calls,
                   history, delete_vars, notify_vars, listing, notify_backend>>

\* list_all_kommander_clusters
ListClusters(items) ==
    /\ pc = "list"
    /\ Len(items) <= MaxClusters
    /\ inventory' = SelectSeq(items, HasCapiCluster)
    /\ idx' = 1
    /\ pc' = IF inventory' = <<>> THEN AfterEvaluation ELSE "evaluate"
    /\ UNCHANGED <<config_data, criteria, now, cluster, decision, command, clusters_to_delete,
                   excluded_clusters, critical_clusters, warning_clusters, thresholds,
                   current_time, delete_calls, history, delete_vars, notify_vars, listing, notify_backend>>

\* One iteration of the loop of get_clusters_with_exclusions
Evaluate ==
    /\ pc = "evaluate"
    /\ LET kc == inventory[idx]
           d == kommander_cluster_matches_criteria(criteria, kc, now)
       IN  /\ cluster' = kc
           /\ decision' = d
           /\ IF d.raised # None
              THEN /\ pc' = "aborted"
                   /\ UNCHANGED <<idx, clusters_to_delete, excluded_clusters>>
              ELSE LET part == PartitionEntry(kc, d)
                   IN  /\ clusters_to_delete' =
                              IF part.list = "delete"
                              THEN Append(clusters_to_delete, part.entry)
                              ELSE clusters_to_delete
                       /\ excluded_clusters' =
                              IF part.list = "excluded"
                              THEN Append(excluded_clusters, part.entry)
                              ELSE excluded_clusters
                       /\ idx' = IF idx = Len(inventory) THEN 1 ELSE idx + 1
                       /\ pc' = IF idx = Len(inventory) THEN AfterEvaluation
                                ELSE "evaluate"
    /\ UNCHANGED <<config_data, criteria, now, command, inventory, critical_clusters,
                   warning_clusters, thresholds, current_time, delete_calls,
                   history, delete_vars, notify_vars, listing, notify_backend>>

\* The wall clock advances between two readings of datetime.now()
Tick ==
    /\ pc \in {"evaluate", "classify"}
    /\ now < Created + MaxNow
    /\ now' = now + 1
    /\ UNCHANGED <<config_data, criteria, cluster, decision, command, pc, inventory, idx,
                   clusters_to_delete, excluded_clusters, critical_clusters,
                   warning_clusters, thresholds, current_time, delete_calls,
                   history, delete_vars, notify_vars, listing, notify_backend>>

\* get_clusters_for_notification, lines 61-152
Classify ==
    /\ pc = "classify"
    /\ LET deleted == CriticalOfDeleted(clusters_to_delete, now, 1)
           critical == OfExcluded(excluded_clusters, "critical", thresholds[1],
                                  thresholds[2], now, 1)
           warning == OfExcluded(excluded_clusters, "warning", thresholds[1],
                                 thresholds[2], now, 1)
       IN  IF deleted.raised # None \/ critical.raised # None
           THEN /\ pc' = "aborted"
                /\ UNCHANGED <<critical_clusters, warning_clusters>>
           ELSE /\ pc' = "done"
                /\ critical_clusters' = deleted.add \o critical.add
                /\ warning_clusters' = warning.add
    /\ current_time' = now
    /\ UNCHANGED <<config_data, criteria, now, cluster, decision, command, inventory, idx,
                   clusters_to_delete, excluded_clusters, thresholds, delete_calls,
                   history, delete_vars, notify_vars, listing, notify_backend>>

\* delete_clusters: "if not clusters_to_delete: ... return"
NothingToDelete ==
    /\ pc = "delete"
    /\ clusters_to_delete = <<>>
    /\ pc' = "done"
    /\ UNCHANGED <<config_data, criteria, now, cluster, decision, command, inventory, idx,
                   clusters_to_delete, excluded_clusters, critical_clusters,
                   warning_clusters, thresholds, current_time, delete_calls,
                   history, delete_vars, notify_vars, listing, notify_backend>>

DeleteCall(e, ok) ==
    [name |-> e.info.capi_cluster_name, namespace |-> e.info.capi_cluster_namespace,
     ok |-> ok]

ClearCall(e) ==
    [name |-> e.info.capi_cluster_name, namespace |-> e.info.capi_cluster_namespace]

\* main.py:233-242: delete-clusters --delete connects to the notification
\* history; up is whether Redis answers the ping. A refused connection is
\* reported as a warning and the command goes on without a history.
ConnectHistory(up) ==
    /\ pc = "connect"
    /\ notification_history' = IF up THEN "connected" ELSE None
    /\ pc' = "list"
    /\ UNCHANGED <<config_data, criteria, now, cluster, decision, command, inventory, idx,
                   clusters_to_delete, excluded_clusters, critical_clusters,
                   warning_clusters, thresholds, current_time, delete_calls, history,
                   deleted_count, failed_count, clear_calls, notify_vars, listing, notify_backend>>

\* main.py:281 and 294-300: the clusters delete_cluster returned True for
successfully_deleted(calls) ==
    LET Succeeded(c) == c.ok
    IN  [i \in 1..Len(SelectSeq(calls, Succeeded)) |->
            [name |-> SelectSeq(calls, Succeeded)[i].name,
             namespace |-> SelectSeq(calls, Succeeded)[i].namespace]]

\* NotificationManager.send_deletion_notification: one request to Slack
DeletionNotice(deleted_clusters, ok) ==
    [run |-> None, severity |-> "info", clusters |-> deleted_clusters, ok |-> ok]

\* main.py:229-231 and 312: the notification manager exists with a backend and
\* without --dry-run, and it is used when a cluster was deleted
AfterDeletion(calls) ==
    IF notify_backend # None /\ command = "delete" /\ successfully_deleted(calls) # <<>>
    THEN "notify_deleted" ELSE "done"

\* Faulty variant of DeleteCluster: the first failed delete ends the loop
DeleteCluster_halts_on_failure(ok) ==
    /\ pc = "delete"
    /\ command = "delete"
    /\ idx <= Len(clusters_to_delete)
    /\ LET e == clusters_to_delete[idx]
       IN  /\ delete_calls' = Append(delete_calls, DeleteCall(e, ok))
           /\ deleted_count' = IF ok THEN deleted_count + 1 ELSE deleted_count
           /\ failed_count' = IF ok THEN failed_count ELSE failed_count + 1
           /\ IF ok /\ notification_history # None
              THEN /\ history' = clear_cluster_history(history, e.info.capi_cluster_name,
                                                       e.info.capi_cluster_namespace)
                   /\ clear_calls' = Append(clear_calls, ClearCall(e))
              ELSE UNCHANGED <<history, clear_calls>>
    /\ idx' = idx + 1
    /\ pc' = IF idx = Len(clusters_to_delete) \/ ~ok THEN AfterDeletion(delete_calls')
             ELSE "delete"
    /\ UNCHANGED <<config_data, criteria, now, cluster, decision, command, inventory,
                   clusters_to_delete, excluded_clusters, critical_clusters,
                   warning_clusters, thresholds, current_time, notification_history,
                   notify_vars, listing, notify_backend>>

\* One iteration of the deletion loop of delete_clusters with --delete
\* (main.py:283-309); ok is what ClusterManager.delete_cluster returns
DeleteCluster(ok) ==
    /\ pc = "delete"
    /\ command = "delete"
    /\ idx <= Len(clusters_to_delete)
    /\ LET e == clusters_to_delete[idx]
       IN  /\ delete_calls' = Append(delete_calls, DeleteCall(e, ok))
           /\ deleted_count' = IF ok THEN deleted_count + 1 ELSE deleted_count
           /\ failed_count' = IF ok THEN failed_count ELSE failed_count + 1
           /\ IF ok /\ notification_history # None
              THEN /\ history' = clear_cluster_history(history, e.info.capi_cluster_name,
                                                       e.info.capi_cluster_namespace)
                   /\ clear_calls' = Append(clear_calls, ClearCall(e))
              ELSE UNCHANGED <<history, clear_calls>>
    /\ idx' = idx + 1
    /\ pc' = IF idx = Len(clusters_to_delete) THEN AfterDeletion(delete_calls')
             ELSE "delete"
    /\ UNCHANGED <<config_data, criteria, now, cluster, decision, command, inventory,
                   clusters_to_delete, excluded_clusters, critical_clusters,
                   warning_clusters, thresholds, current_time, notification_history,
                   notify_vars, listing, notify_backend>>

\* main.py:311-327: the deletion notification; ok is whether Slack accepts
\* the request. A failure is reported as a warning.
SendDeletionNotification(ok) ==
    /\ pc = "notify_deleted"
    /\ sent' = Append(sent, DeletionNotice(successfully_deleted(delete_calls), ok))
    /\ pc' = "done"
    /\ UNCHANGED <<config_data, criteria, now, cluster, decision, command, inventory, idx,
                   clusters_to_delete, excluded_clusters, critical_clusters,
                   warning_clusters, thresholds, current_time, delete_calls, history,
                   delete_vars, runs, listing, notify_backend>>

\* Faulty variant of WouldDelete: the dry run hands the cluster to delete_cluster
WouldDelete_calls_delete ==
    /\ pc = "delete"
    /\ command = "dry-run"
    /\ idx <= Len(clusters_to_delete)
    /\ delete_calls' = Append(delete_calls, DeleteCall(clusters_to_delete[idx], TRUE))
    /\ deleted_count' = deleted_count + 1
    /\ idx' = idx + 1
    /\ pc' = IF idx = Len(clusters_to_delete) THEN "done" ELSE "delete"
    /\ UNCHANGED <<config_data, criteria, now, cluster, decision, command, inventory,
                   clusters_to_delete, excluded_clusters, critical_clusters,
                   warning_clusters, thresholds, current_time, history,
                   notification_history, failed_count, clear_calls, notify_vars, listing,
                   notify_backend>>

\* One iteration of the deletion loop in dry-run mode (main.py:288-290)
WouldDelete ==
    /\ pc = "delete"
    /\ command = "dry-run"
    /\ idx <= Len(clusters_to_delete)
    /\ deleted_count' = deleted_count + 1
    /\ idx' = idx + 1
    /\ pc' = IF idx = Len(clusters_to_delete) THEN "done" ELSE "delete"
    /\ UNCHANGED <<config_data, criteria, now, cluster, decision, command, inventory,
                   clusters_to_delete, excluded_clusters, critical_clusters,
                   warning_clusters, thresholds, current_time, delete_calls, history,
                   notification_history, failed_count, clear_calls, notify_vars, listing, notify_backend>>

\* The status the process exits with: click turns the Abort of
\* main.py:340-342 into status 1, a command that returns exits with 0
ExitStatus == IF pc = "aborted" THEN 1 ELSE 0

NextRun ==
    \/ ValidateThresholds
    \/ \E up \in BOOLEAN : ConnectHistory(up)
    \/ /\ pc = "list"
       /\ \E items \in Responses : ListClusters(items)
    \/ Evaluate
    \/ Tick
    \/ Classify
    \/ NothingToDelete
    \/ \E ok \in BOOLEAN : DeleteCluster(ok)
    \/ WouldDelete

SpecRun == InitRun /\ [][NextRun]_vars

-----------------------------------------------------------------------------
(* delete-clusters against a Redis database that holds the records of
   earlier notify runs. The API server answers every request, and Redis
   either refuses the connection or serves every command of the run. *)

DevKey == _get_cluster_key(<<"dev">>, <<"default">>)
ProdKey == _get_cluster_key(<<"prod", "-1">>, <<"default">>)

StoredHistories ==
    {EmptyStore,
     {<<DevKey, "warning">>},
     {<<DevKey, "warning">>, <<DevKey, "critical">>, <<ProdKey, "critical">>}}

\* The listings whose clusters were created at Created and carry a complete
\* reference
Deletable(kc) ==
    /\ kc.creationTimestamp = Timestamp("Z", Created)
    /\ kc.capi.get \in {"found", "404"}
    /\ Truthy(kc.capi.name) /\ Truthy(kc.capi.namespace)

DeleteResponses ==
    {items \in Responses : \A i \in 1..Len(items) : Deletable(items[i])}

InitDelete ==
    /\ config_data \in {DocumentOf(crit) : crit \in RunPolicies}
    /\ criteria = _parse_config(config_data)
    /\ command \in {"delete", "dry-run"}
    /\ thresholds = DefaultThresholds
    /\ pc = FirstStep
    /\ now = Created
    /\ cluster = NoCluster
    /\ decision = NoDecision
    /\ history \in StoredHistories
    /\ RunIdle

NextDelete ==
    \/ \E up \in BOOLEAN : ConnectHistory(up)
    \/ /\ pc = "list"
       /\ \E items \in DeleteResponses : ListClusters(items)
    \/ Evaluate
    \/ Tick
    \/ NothingToDelete
    \/ \E ok \in BOOLEAN : DeleteCluster(ok)
    \/ WouldDelete

SpecDelete == InitDelete /\ [][NextDelete]_vars

-----------------------------------------------------------------------------
(* list-clusters, the dry run and delete-clusters --delete over the same
   inventory at the same instant, with and without --notify-backend *)

PlanCommands == {"list", "dry-run", "delete"}

\* --notify-backend: main.py:197-199 accepts "slack" only
PlanBackends == {"slack", None}

InitPlan ==
    /\ config_data \in {DocumentOf(crit) : crit \in RunPolicies}
    /\ criteria = _parse_config(config_data)
    /\ command \in PlanCommands
    /\ thresholds = DefaultThresholds
    /\ pc = FirstStep
    /\ now = Created + 1
    /\ cluster = NoCluster
    /\ decision = NoDecision
    /\ history \in StoredHistories
    /\ inventory = <<>>
    /\ idx = 0
    /\ clusters_to_delete = <<>>
    /\ excluded_clusters = <<>>
    /\ critical_clusters = <<>>
    /\ warning_clusters = <<>>
    /\ current_time = Created
    /\ delete_calls = <<>>
    /\ notification_history = None
    /\ deleted_count = 0
    /\ failed_count = 0
    /\ clear_calls = <<>>
    /\ sent = <<>>
    /\ runs = NoRuns
    /\ listing = NoListing
    /\ notify_backend \in PlanBackends

NextPlan ==
    \/ \E up \in BOOLEAN : ConnectHistory(up)
    \/ /\ pc = "list"
       /\ \E items \in DeleteResponses : ListClusters(items)
    \/ Evaluate
    \/ NothingToDelete
    \/ \E ok \in BOOLEAN : DeleteCluster(ok)
    \/ \E ok \in BOOLEAN : SendDeletionNotification(ok)
    \/ WouldDelete

SpecPlan == InitPlan /\ [][NextPlan]_vars

-----------------------------------------------------------------------------
(* delete-clusters --delete under policies whose protection patterns compile
   or do not compile *)

\* Policies without required labels
GuardPolicies == {crit \in Policies : crit.extra_labels = <<>>}

InitGuard ==
    /\ config_data \in {DocumentOf(crit) : crit \in GuardPolicies}
    /\ criteria = _parse_config(config_data)
    /\ command = "delete"
    /\ thresholds = DefaultThresholds
    /\ pc = FirstStep
    /\ now = Created + 1
    /\ cluster = NoCluster
    /\ decision = NoDecision
    /\ history = EmptyStore
    /\ RunIdle

NextGuard ==
    \/ \E up \in BOOLEAN : ConnectHistory(up)
    \/ /\ pc = "list"
       /\ \E items \in DeleteResponses : ListClusters(items)
    \/ Evaluate
    \/ NothingToDelete
    \/ \E ok \in BOOLEAN : DeleteCluster(ok)

SpecGuard == InitGuard /\ [][NextGuard]_vars

-----------------------------------------------------------------------------
(* The expiry instant of one cluster: _parse_expires_label applied to the
   'expires' label and the creationTimestamp of the cluster *)

ExpiresNumbers == {0, 1, 2, 3, 364, 365, 366, 9999}
UnitLetters == {"h", "d", "w", "y", "H", "D", "W", "Y"}

ExpiresLabel(n, u) == ToDigits(n) \o <<u>>

ExpiryClusters ==
    {KommanderCluster(<<"dev">>, <<"default">>, RunLabels(ExpiresLabel(n, u), <<"alice">>),
                      Timestamp(k, t), ResolvedRef) :
        n \in ExpiresNumbers, u \in UnitLetters, k \in {"Z", "naive"},
        t \in {Created, Created + 1}}

InitExpiry ==
    /\ config_data = DocumentOf(EmptyPolicy)
    /\ criteria = _parse_config(config_data)
    /\ command = "expiry"
    /\ thresholds = DefaultThresholds
    /\ pc = "parse"
    /\ now = Created
    /\ cluster \in ExpiryClusters
    /\ decision = NoDecision
    /\ history = EmptyStore
    /\ RunIdle

\* cluster_manager.py:225: decision is what _parse_expires_label returned or
\* raised
ParseExpires ==
    /\ pc = "parse"
    /\ decision' = parse_expires_label(cluster.labels.expires, cluster.creationTimestamp)
    /\ pc' = "done"
    /\ UNCHANGED <<config_data, criteria, now, cluster, command, inventory, idx,
                   clusters_to_delete, excluded_clusters, critical_clusters,
                   warning_clusters, thresholds, current_time, delete_calls,
                   history, delete_vars, notify_vars, listing, notify_backend>>

NextExpiry == ParseExpires

SpecExpiry == InitExpiry /\ [][NextExpiry]_vars

-----------------------------------------------------------------------------
(* delete-clusters over the namespaces of the API server: the namespaces are
   listed, then the KommanderClusters of each. The API server answers every
   request, with the objects, with a 404 or with another error status (an
   ApiException). *)

\* cluster_manager.py:125: kc["_namespace"] = namespace_name
ListedIn(kc, namespace_name) == [kc EXCEPT !.namespace = namespace_name]

\* The answer to list_namespaced_custom_object for one namespace
NamespaceResponse(namespace_name, status, items) ==
    [namespace |-> namespace_name, status |-> status, items |-> items]

\* Lines 111-126: the objects of one answer that carry a capiCluster dictionary
RECURSIVE ClustersIn(_, _, _)
ClustersIn(items, namespace_name, k) ==
    IF k > Len(items) THEN <<>>
    ELSE (IF HasCapiCluster(items[k]) THEN <<ListedIn(items[k], namespace_name)>> ELSE <<>>)
             \o ClustersIn(items, namespace_name, k + 1)

\* Faulty variant of ClustersOf: the first namespace that cannot be listed
\* ends the loop
RECURSIVE ClustersOf_stops_at_failure(_, _)
ClustersOf_stops_at_failure(responses, i) ==
    IF i > Len(responses) THEN <<>>
    ELSE IF responses[i].status # "ok" THEN <<>>
    ELSE ClustersIn(responses[i].items, responses[i].namespace, 1)
             \o ClustersOf_stops_at_failure(responses, i + 1)

\* The loop of lines 101-134 over namespaces_to_check, from namespace i on: an
\* ApiException of one namespace (404 or not) goes on with the next
RECURSIVE ClustersOf(_, _)
ClustersOf(responses, i) ==
    IF i > Len(responses) THEN <<>>
    ELSE (IF responses[i].status = "ok"
          THEN ClustersIn(responses[i].items, responses[i].namespace, 1)
          ELSE <<>>)
             \o ClustersOf(responses, i + 1)

\* ClusterManager.list_all_kommander_clusters without a namespace argument
list_all_kommander_clusters(answer) ==
    CASE answer.namespaces = "404" -> [raised |-> None, clusters |-> <<>>]
      [] answer.namespaces = "error" -> [raised |-> "Exception", clusters |-> <<>>]
      [] OTHER -> [raised |-> None, clusters |-> ClustersOf(answer.responses, 1)]

\* get_clusters_with_exclusions, line 414: the listing
ListNamespaces(answer) ==
    /\ pc = "list"
    /\ listing' = answer
    /\ inventory' = list_all_kommander_clusters(answer).clusters
    /\ idx' = 1
    /\ pc' = IF list_all_kommander_clusters(answer).raised # None THEN "aborted"
             ELSE IF inventory' = <<>> THEN AfterEvaluation ELSE "evaluate"
    /\ UNCHANGED <<config_data, criteria, now, cluster, decision, command,
                   clusters_to_delete, excluded_clusters, critical_clusters,
                   warning_clusters, thresholds, current_time, delete_calls,
                   history, delete_vars, notify_vars, notify_backend>>

\* A cluster without an 'expires' label, as the API server stores it
StoredCluster(n, ns, get) ==
    KommanderCluster(n, Absent, RunLabels(Absent, <<"alice">>), Timestamp("Z", Created),
                     IF get = "no capiCluster" THEN AttachedRef ELSE CapiRef(n, ns, get))

\* What one namespace can answer: its objects (none, or one cluster whose CAPI
\* cluster is found, cannot be verified, or is not referenced), or an error
AnswersOf(n, ns) ==
    {NamespaceResponse(ns, "ok", <<>>)}
    \cup {NamespaceResponse(ns, "ok", <<StoredCluster(n, ns, get)>>) :
             get \in {"found", "error", "no capiCluster"}}
    \cup {NamespaceResponse(ns, status, <<>>) : status \in {"404", "error"}}

ListAnswers ==
    {[namespaces |-> status, responses |-> <<>>] : status \in {"404", "error"}}
    \cup {[namespaces |-> "ok", responses |-> <<a, b>>] :
             a \in AnswersOf(<<"dev">>, <<"default">>),
             b \in AnswersOf(<<"prod", "-1">>, <<"kube", "-", "system">>)}

InitList ==
    /\ config_data = DocumentOf(EmptyPolicy)
    /\ criteria = _parse_config(config_data)
    /\ command \in {"delete", "dry-run"}
    /\ thresholds = DefaultThresholds
    /\ pc = FirstStep
    /\ now = Created
    /\ cluster = NoCluster
    /\ decision = NoDecision
    /\ history = EmptyStore
    /\ RunIdle

NextList ==
    \/ \E up \in BOOLEAN : ConnectHistory(up)
    \/ /\ pc = "list"
       /\ \E answer \in ListAnswers : ListNamespaces(answer)
    \/ Evaluate
    \/ NothingToDelete
    \/ \E ok \in BOOLEAN : DeleteCluster(ok)
    \/ WouldDelete

SpecList == InitList /\ [][NextList]_vars

-----------------------------------------------------------------------------
(* The notify command (commands/notify.py) run by up to two processes against
   one Redis database, while labels change, clusters come and go and the
   clock advances. main.py:418 passes no grace period, so the
   NotificationManager of the command is the one of notification_manager.py.
   Every call to the API server and every Redis command is one step; Redis
   either refuses the connection or serves every command of the run. In this
   specification inventory is what list_all_kommander_clusters returns at
   present. *)

\* get_clusters_with_exclusions at one reading of the clock, from entry i on
RECURSIVE get_clusters_with_exclusions(_, _, _, _)
get_clusters_with_exclusions(crit, items, clock, i) ==
    IF i > Len(items)
    THEN [raised |-> None, clusters_to_delete |-> <<>>, excluded_clusters |-> <<>>]
    ELSE LET d == kommander_cluster_matches_criteria(crit, items[i], clock)
             rest == get_clusters_with_exclusions(crit, items, clock, i + 1)
             part == PartitionEntry(items[i], d)
         IN  IF d.raised # None
             THEN [raised |-> d.raised, clusters_to_delete |-> <<>>,
                   excluded_clusters |-> <<>>]
             ELSE IF rest.raised # None THEN rest
             ELSE [raised |-> None,
                   clusters_to_delete |->
                       (IF part.list = "delete" THEN <<part.entry>> ELSE <<>>)
                           \o rest.clusters_to_delete,
                   excluded_clusters |->
                       (IF part.list = "excluded" THEN <<part.entry>> ELSE <<>>)
                           \o rest.excluded_clusters]

NoClassification == [critical_clusters |-> <<>>, warning_clusters |-> <<>>]

\* Line 152: the two lists, unless a loop raised
NotificationLists(deleted, critical, warning) ==
    IF deleted.raised # None \/ critical.raised # None
    THEN [raised |-> "OverflowError", lists |-> NoClassification]
    ELSE [raised |-> None,
          lists |-> [critical_clusters |-> deleted.add \o critical.add,
                     warning_clusters |-> warning.add]]

\* Lines 67-152: the two loops over what get_clusters_with_exclusions found
ClassifyFound(found, warning_threshold, critical_threshold, clock) ==
    IF found.raised # None
    THEN [raised |-> found.raised, lists |-> NoClassification]
    ELSE NotificationLists(CriticalOfDeleted(found.clusters_to_delete, clock, 1),
                           OfExcluded(found.excluded_clusters, "critical",
                                      warning_threshold, critical_threshold, clock, 1),
                           OfExcluded(found.excluded_clusters, "warning",
                                      warning_threshold, critical_threshold, clock, 1))

\* NotificationManager.get_clusters_for_notification
get_clusters_for_notification(crit, items, warning_threshold, critical_threshold, clock) ==
    IF ~ThresholdsValid(warning_threshold, critical_threshold)
    THEN [raised |-> "ValueError", lists |-> NoClassification]
    ELSE ClassifyFound(get_clusters_with_exclusions(crit, items, clock, 1),
                       warning_threshold, critical_threshold, clock)

\* notify.py:175 and 186: f"{cluster_namespace}:{cluster_name}"
NeedKey(cluster_name, cluster_namespace) ==
    Str(cluster_namespace) \o <<":">> \o Str(cluster_name)

\* notify.py:170-176
clusters_needing_notifications(lists) ==
    {NeedKey(lists.critical_clusters[i].info.capi_cluster_name,
             lists.critical_clusters[i].info.capi_cluster_namespace) :
        i \in 1..Len(lists.critical_clusters)}
    \cup {NeedKey(lists.warning_clusters[i].info.capi_cluster_name,
                  lists.warning_clusters[i].info.capi_cluster_namespace) :
             i \in 1..Len(lists.warning_clusters)}

\* Faulty variant of IsStale: every stored record is stale
IsStale_always(c, needing) == TRUE

\* notify.py:184-189
IsStale(c, needing) == NeedKey(c.cluster_name, c.namespace) \notin needing

NotifyThresholds == <<50, 100>>

\* --warning-threshold and --critical-threshold are integers (main.py:350-363):
\* the pair the runs classify with, a pair of equal thresholds, one with a
\* negative warning threshold and one with a critical threshold above 100
NotifyThresholdPairs == {NotifyThresholds, <<80, 80>>, <<-1, 50>>, <<50, 101>>}

NotifyCluster(n, e) ==
    KommanderCluster(n, <<"default">>, RunLabels(e, <<"alice">>),
                     Timestamp("Z", Created), CapiRef(n, <<"default">>, "found"))

\* What the API server can hold: dev without an 'expires' label or with a
\* lifetime of two hours, prod-1 with a lifetime of one hour
NotifyInventories ==
    {SelectSeq(<<a, b>>, Present) :
        a \in {NoCluster, NotifyCluster(<<"dev">>, Absent),
               NotifyCluster(<<"dev">>, <<"2", "h">>)},
        b \in {NoCluster, NotifyCluster(<<"prod", "-1">>, <<"1", "h">>)}}

\* A cluster of another team, in that team's namespace
ScopedCluster(n, ns, e) ==
    KommanderCluster(n, ns, RunLabels(e, <<"alice">>), Timestamp("Z", Created),
                     CapiRef(n, ns, "found"))

\* dev in the namespace default and test in the namespace team, both with a
\* lifetime of two hours
ScopedInventories ==
    {SelectSeq(<<a, b>>, Present) :
        a \in {NoCluster, ScopedCluster(<<"dev">>, <<"default">>, <<"2", "h">>)},
        b \in {NoCluster, ScopedCluster(<<"test">>, <<"team">>, <<"2", "h">>)}}

\* list_all_kommander_clusters, lines 93-95: with --namespace only that
\* namespace is listed
Visible(items, namespace) ==
    IF namespace = None THEN items
    ELSE LET InNamespace(kc) == kc.namespace = namespace
         IN  SelectSeq(items, InNamespace)

\* The clock readings of a run
NotifyClock == Created..(Created + MaxNow)

\* What get_clusters_for_notification returns for each pair of thresholds and
\* each inventory at each clock reading, under the policy of the runs
NotifyEvaluations ==
    [th \in NotifyThresholdPairs |->
        [items \in NotifyInventories \cup ScopedInventories |->
            [clock \in NotifyClock |->
                get_clusters_for_notification(_parse_config(DocumentOf(EmptyPolicy)),
                                              items, th[1], th[2], clock)]]]

\* NotificationManager.get_clusters_for_notification, called now
Evaluation(items, clock) == NotifyEvaluations[thresholds][items][clock]

RunIds == {1, 2}
Backends == {"slack", None}

IdleRun ==
    [pc |-> "idle",
     backend |-> None,                \* notify_backend
     notification_history |-> None,   \* notify.py:264
     found |-> {},                    \* what Redis held when the process connected
     needing |-> {},                  \* clusters_needing_notifications
     stored |-> {},                   \* all_notified_clusters
     stale |-> {},                    \* the entries of it still to be looked at
     cleared |-> {},                  \* the entries clear_cluster_history was called for
     classified |-> NoClassification, \* what line 316 returned
     critical_clusters |-> <<>>,
     warning_clusters |-> <<>>,
     todo |-> <<>>,                   \* the rest of the list a loop iterates
     kept |-> <<>>,                   \* new_clusters of filter_new_notifications
     at_start |-> <<>>,               \* where the other processes were at the start
     namespace |-> None]              \* --namespace

Delivery(r, severity, clusters, ok) ==
    [run |-> r, severity |-> severity,
     clusters |-> [i \in 1..Len(clusters) |->
                      [cluster_name |-> clusters[i].info.capi_cluster_name,
                       namespace |-> clusters[i].info.capi_cluster_namespace]],
     ok |-> ok]

\* What no step of notify writes
NotifyFrame ==
    UNCHANGED <<config_data, criteria, cluster, decision, command, pc, idx,
                clusters_to_delete, excluded_clusters, critical_clusters,
                warning_clusters, thresholds, current_time, delete_calls, delete_vars,
                listing, notify_backend>>

\* Faulty variant of Start: without Redis the command goes on without a history
Start_fails_open(r, backend, up, namespace) ==
    /\ runs[r].pc = "idle"
    /\ runs' = [runs EXCEPT ![r] =
                   [@ EXCEPT !.backend = backend,
                             !.namespace = namespace,
                             !.at_start = [o \in RunIds |-> runs[o].pc],
                             !.notification_history =
                                 IF backend # None /\ up THEN "connected" ELSE None,
                             !.found = IF backend # None /\ up THEN history ELSE {},
                             !.pc = IF backend # None /\ up THEN "cleanup" ELSE "classify"]]
    /\ UNCHANGED <<now, inventory, history, sent>>
    /\ NotifyFrame

\* notify.py:229-289: up is whether Redis answers the ping
Start(r, backend, up, namespace) ==
    /\ runs[r].pc = "idle"
    /\ runs' = [runs EXCEPT ![r] =
                   [@ EXCEPT !.backend = backend,
                             !.namespace = namespace,
                             !.at_start = [o \in RunIds |-> runs[o].pc],
                             !.notification_history =
                                 IF backend # None /\ up THEN "connected" ELSE None,
                             !.found = IF backend # None /\ up THEN history ELSE {},
                             !.pc = IF backend = None THEN "classify"
                                    ELSE IF up THEN "cleanup" ELSE "aborted"]]
    /\ UNCHANGED <<now, inventory, history, sent>>
    /\ NotifyFrame

\* Lines 169-176, or the exception of the evaluation
AfterCleanupEvaluation(rec, res) ==
    IF res.raised # None THEN [rec EXCEPT !.pc = "aborted"]
    ELSE [rec EXCEPT !.needing = clusters_needing_notifications(res.lists),
                     !.pc = "cleanup_keys"]

\* _cleanup_stale_notifications, lines 163-176
CleanupEvaluate(r) ==
    /\ runs[r].pc = "cleanup"
    /\ runs' = [runs EXCEPT ![r] = AfterCleanupEvaluation(@, Evaluation(Visible(inventory, runs[r].namespace),
                                                                  now))]
    /\ UNCHANGED <<now, inventory, history, sent>>
    /\ NotifyFrame

\* _cleanup_stale_notifications, line 179
CleanupKeys(r) ==
    /\ runs[r].pc = "cleanup_keys"
    /\ LET all_notified_clusters == get_all_notified_clusters(history)
           stale == {c \in all_notified_clusters : IsStale(c, runs[r].needing)}
       IN  runs' = [runs EXCEPT ![r] =
                       [@ EXCEPT !.stored = all_notified_clusters,
                                 !.stale = stale,
                                 !.pc = IF stale = {} THEN "classify"
                                        ELSE "cleanup_clear"]]
    /\ UNCHANGED <<now, inventory, history, sent>>
    /\ NotifyFrame

\* _cleanup_stale_notifications, lines 183-191: one clear_cluster_history
ClearStale(r, c) ==
    /\ runs[r].pc = "cleanup_clear"
    /\ c \in runs[r].stale
    /\ history' = clear_cluster_history(history, c.cluster_name, c.namespace)
    /\ runs' = [runs EXCEPT ![r] =
                   [@ EXCEPT !.stale = @ \ {c},
                             !.cleared = @ \cup {c},
                             !.pc = IF runs[r].stale = {c} THEN "classify"
                                    ELSE "cleanup_clear"]]
    /\ UNCHANGED <<now, inventory, sent>>
    /\ NotifyFrame

\* notify.py:316-326 and 344-391: without a history the lists are not
\* filtered, without a backend the command only displays them
AfterClassification(rec, res) ==
    IF res.raised # None THEN [rec EXCEPT !.pc = "aborted"]
    ELSE [rec EXCEPT !.classified = res.lists,
                     !.critical_clusters = res.lists.critical_clusters,
                     !.warning_clusters = res.lists.warning_clusters,
                     !.todo = res.lists.critical_clusters,
                     !.kept = <<>>,
                     !.pc = IF rec.notification_history # None
                            THEN "filter_critical"
                            ELSE IF \/ rec.backend = None
                                    \/ Len(res.lists.critical_clusters)
                                       + Len(res.lists.warning_clusters) = 0
                            THEN "done" ELSE "send_critical"]

\* notify.py:316-320
ClassifyRun(r) ==
    /\ runs[r].pc = "classify"
    /\ runs' = [runs EXCEPT ![r] = AfterClassification(@, Evaluation(Visible(inventory, runs[r].namespace),
                                                                now))]
    /\ UNCHANGED <<now, inventory, history, sent>>
    /\ NotifyFrame

\* One iteration of filter_new_notifications, or the return of its result
FilterStep(rec, severity) ==
    IF rec.todo = <<>>
    THEN IF severity = "critical"
         THEN [rec EXCEPT !.critical_clusters = rec.kept,
                          !.todo = rec.warning_clusters,
                          !.kept = <<>>,
                          !.pc = "filter_warning"]
         ELSE [rec EXCEPT !.warning_clusters = rec.kept,
                          !.kept = <<>>,
                          !.pc = IF Len(rec.kept) + Len(rec.critical_clusters) = 0
                                 THEN "done" ELSE "send_critical"]
    ELSE LET cluster_info == rec.todo[1].info
         IN  [rec EXCEPT !.todo = Tail(rec.todo),
                         !.kept = IF ~has_been_notified(history,
                                                        cluster_info.capi_cluster_name,
                                                        cluster_info.capi_cluster_namespace,
                                                        severity)
                                  THEN Append(rec.kept, rec.todo[1])
                                  ELSE rec.kept]

\* notify.py:327-329
FilterCritical(r) ==
    /\ runs[r].pc = "filter_critical"
    /\ runs' = [runs EXCEPT ![r] = FilterStep(runs[r], "critical")]
    /\ UNCHANGED <<now, inventory, history, sent>>
    /\ NotifyFrame

\* notify.py:330-359
FilterWarning(r) ==
    /\ runs[r].pc = "filter_warning"
    /\ runs' = [runs EXCEPT ![r] = FilterStep(runs[r], "warning")]
    /\ UNCHANGED <<now, inventory, history, sent>>
    /\ NotifyFrame

\* notify.py:135-139: an exception of a send ends the command
AfterFailedSend(severity) == "aborted"

\* _send_slack_expiry_notifications, lines 86-96 and 109-119: one request
\* to the Slack API; ok is whether Slack accepted it
\* Faulty variant of SendStep: the clusters are marked whatever Slack answered
SendStep_marks_anyway(r, rec, severity, clusters, ok) ==
    IF clusters = <<>>
    THEN /\ runs' = [runs EXCEPT ![r] =
                        [rec EXCEPT !.pc = IF severity = "critical" THEN "send_warning"
                                           ELSE "done"]]
         /\ UNCHANGED sent
    ELSE /\ sent' = Append(sent, Delivery(r, severity, clusters, ok))
         /\ runs' = [runs EXCEPT ![r] =
                        IF rec.notification_history # None
                        THEN [rec EXCEPT !.todo = clusters,
                                         !.pc = IF severity = "critical"
                                                THEN "mark_critical"
                                                ELSE "mark_warning"]
                        ELSE [rec EXCEPT !.pc = IF severity = "critical"
                                                THEN "send_warning" ELSE "done"]]

SendStep(r, rec, severity, clusters, ok) ==
    IF clusters = <<>>
    THEN /\ runs' = [runs EXCEPT ![r] =
                        [rec EXCEPT !.pc = IF severity = "critical" THEN "send_warning"
                                           ELSE "done"]]
         /\ UNCHANGED sent
    ELSE /\ sent' = Append(sent, Delivery(r, severity, clusters, ok))
         /\ runs' = [runs EXCEPT ![r] =
                        IF ok
                        THEN IF rec.notification_history # None
                             THEN [rec EXCEPT !.todo = clusters,
                                              !.pc = IF severity = "critical"
                                                     THEN "mark_critical"
                                                     ELSE "mark_warning"]
                             ELSE [rec EXCEPT !.pc = IF severity = "critical"
                                                     THEN "send_warning" ELSE "done"]
                        ELSE [rec EXCEPT !.pc = AfterFailedSend(severity)]]

SendCritical(r, ok) ==
    /\ runs[r].pc = "send_critical"
    /\ SendStep(r, runs[r], "critical", runs[r].critical_clusters, ok)
    /\ UNCHANGED <<now, inventory, history>>
    /\ NotifyFrame

SendWarning(r, ok) ==
    /\ runs[r].pc = "send_warning"
    /\ SendStep(r, runs[r], "warning", runs[r].warning_clusters, ok)
    /\ UNCHANGED <<now, inventory, history>>
    /\ NotifyFrame

\* One iteration of mark_clusters_as_notified, or its return
MarkStep(r, rec, severity) ==
    IF rec.todo = <<>>
    THEN /\ runs' = [runs EXCEPT ![r] =
                        [rec EXCEPT !.pc = IF severity = "critical" THEN "send_warning"
                                           ELSE "done"]]
         /\ UNCHANGED history
    ELSE /\ history' = mark_as_notified(history, rec.todo[1].info.capi_cluster_name,
                                        rec.todo[1].info.capi_cluster_namespace, severity)
         /\ runs' = [runs EXCEPT ![r] = [rec EXCEPT !.todo = Tail(rec.todo)]]

\* notify.py:99-102
MarkCritical(r) ==
    /\ runs[r].pc = "mark_critical"
    /\ MarkStep(r, runs[r], "critical")
    /\ UNCHANGED <<now, inventory, sent>>
    /\ NotifyFrame

\* notify.py:122-125
MarkWarning(r) ==
    /\ runs[r].pc = "mark_warning"
    /\ MarkStep(r, runs[r], "warning")
    /\ UNCHANGED <<now, inventory, sent>>
    /\ NotifyFrame

\* What Redis can hold at the start: nothing, or the records of earlier runs
NotifyStores == {EmptyStore, {<<DevKey, "warning">>, <<ProdKey, "critical">>}}

\* No process is in the middle of a run. A run takes seconds, the clock counts
\* hours: the clock and the clusters change between the runs
Quiet == \A r \in RunIds : runs[r].pc \in {"idle", "done", "aborted"}

\* Labels are edited, clusters are created and removed
ChangeInventory(items) ==
    /\ Quiet
    /\ items # inventory
    /\ inventory' = items
    /\ UNCHANGED <<now, history, sent, runs>>
    /\ NotifyFrame

\* The wall clock advances
TickNotify ==
    /\ Quiet
    /\ now < Created + MaxNow
    /\ now' = now + 1
    /\ UNCHANGED <<inventory, history, sent, runs>>
    /\ NotifyFrame

InitNotify ==
    /\ config_data = DocumentOf(EmptyPolicy)
    /\ criteria = _parse_config(config_data)
    /\ command = "notify"
    /\ pc = "runs"
    /\ thresholds \in NotifyThresholdPairs
    /\ now = Created
    /\ cluster = NoCluster
    /\ decision = NoDecision
    /\ inventory \in NotifyInventories
    /\ idx = 0
    /\ clusters_to_delete = <<>>
    /\ excluded_clusters = <<>>
    /\ critical_clusters = <<>>
    /\ warning_clusters = <<>>
    /\ current_time = Created
    /\ delete_calls = <<>>
    /\ notification_history = None
    /\ deleted_count = 0
    /\ failed_count = 0
    /\ clear_calls = <<>>
    /\ history \in NotifyStores
    /\ listing = NoListing
    /\ notify_backend = None
    /\ sent = <<>>
    /\ runs = [r \in RunIds |-> IdleRun]

NextNotify ==
    \/ \E r \in RunIds, backend \in Backends, up \in BOOLEAN : Start(r, backend, up, None)
    \/ \E r \in RunIds : CleanupEvaluate(r)
    \/ \E r \in RunIds : CleanupKeys(r)
    \/ \E r \in RunIds : \E c \in runs[r].stale : ClearStale(r, c)
    \/ \E r \in RunIds : ClassifyRun(r)
    \/ \E r \in RunIds : FilterCritical(r)
    \/ \E r \in RunIds : FilterWarning(r)
    \/ \E r \in RunIds, ok \in BOOLEAN : SendCritical(r, ok)
    \/ \E r \in RunIds : MarkCritical(r)
    \/ \E r \in RunIds, ok \in BOOLEAN : SendWarning(r, ok)
    \/ \E r \in RunIds : MarkWarning(r)
    \/ \E items \in NotifyInventories : ChangeInventory(items)
    \/ TickNotify

SpecNotify == InitNotify /\ [][NextNotify]_vars

-----------------------------------------------------------------------------
(* notify runs with and without --namespace, one after the other, over
   clusters of two namespaces that stay as they are while the clock advances
   between the runs *)

TestKey == _get_cluster_key(<<"test">>, <<"team">>)

\* Redis holds nothing, or the warning records of an earlier run
ScopedStores == {EmptyStore, {<<DevKey, "warning">>, <<TestKey, "warning">>}}

ScopedNamespaces == {None, <<"default">>, <<"team">>}

InitScoped ==
    /\ config_data = DocumentOf(EmptyPolicy)
    /\ criteria = _parse_config(config_data)
    /\ command = "notify"
    /\ pc = "runs"
    /\ thresholds = NotifyThresholds
    /\ now \in NotifyClock
    /\ cluster = NoCluster
    /\ decision = NoDecision
    /\ inventory \in ScopedInventories
    /\ idx = 0
    /\ clusters_to_delete = <<>>
    /\ excluded_clusters = <<>>
    /\ critical_clusters = <<>>
    /\ warning_clusters = <<>>
    /\ current_time = Created
    /\ delete_calls = <<>>
    /\ notification_history = None
    /\ deleted_count = 0
    /\ failed_count = 0
    /\ clear_calls = <<>>
    /\ history \in ScopedStores
    /\ listing = NoListing
    /\ notify_backend = None
    /\ sent = <<>>
    /\ runs = [r \in RunIds |-> IdleRun]

NextScoped ==
    \/ /\ Quiet
       /\ \E r \in RunIds, namespace \in ScopedNamespaces, up \in BOOLEAN :
              Start(r, "slack", up, namespace)
    \/ \E r \in RunIds : CleanupEvaluate(r)
    \/ \E r \in RunIds : CleanupKeys(r)
    \/ \E r \in RunIds : \E c \in runs[r].stale : ClearStale(r, c)
    \/ \E r \in RunIds : ClassifyRun(r)
    \/ \E r \in RunIds : FilterCritical(r)
    \/ \E r \in RunIds : FilterWarning(r)
    \/ \E r \in RunIds, ok \in BOOLEAN : SendCritical(r, ok)
    \/ \E r \in RunIds : MarkCritical(r)
    \/ \E r \in RunIds, ok \in BOOLEAN : SendWarning(r, ok)
    \/ \E r \in RunIds : MarkWarning(r)
    \/ TickNotify

SpecScoped == InitScoped /\ [][NextScoped]_vars

-----------------------------------------------------------------------------
(* The classification of one unexpired cluster: the cluster is evaluated at
   one clock reading and classified at the same or a later one *)

ClassifyExpires == {<<"1", "0", "0", "0", "h">>, <<"1", "h">>, <<"0", "h">>}
ClassifyThresholds == {DefaultThresholds, <<57, 95>>, <<0, 50>>}

InitClassify ==
    /\ config_data = DocumentOf(EmptyPolicy)
    /\ criteria = _parse_config(config_data)
    /\ command = "notify"
    /\ thresholds \in ClassifyThresholds
    /\ now \in (Created - 1)..(Created + MaxElapsed)
    /\ \E e \in ClassifyExpires :
           inventory = <<KommanderCluster(<<"dev">>, <<"default">>, RunLabels(e, Absent),
                                          Timestamp("Z", Created),
                                          CapiRef(<<"dev">>, <<"default">>, "found"))>>
    /\ idx = 1
    /\ pc = "evaluate"
    /\ cluster = NoCluster
    /\ decision = NoDecision
    /\ clusters_to_delete = <<>>
    /\ excluded_clusters = <<>>
    /\ critical_clusters = <<>>
    /\ warning_clusters = <<>>
    /\ current_time = Created
    /\ delete_calls = <<>>
    /\ history = EmptyStore
    /\ notification_history = None
    /\ deleted_count = 0
    /\ failed_count = 0
    /\ clear_calls = <<>>
    /\ sent = <<>>
    /\ runs = NoRuns
    /\ listing = NoListing
    /\ notify_backend = None

NextClassify == Evaluate \/ Tick \/ Classify

SpecClassify == InitClassify /\ [][NextClassify]_vars

-----------------------------------------------------------------------------
(* Properties of the deletion decision (SpecDecide) *)

Decided == pc = "decided"

\* Some entry of a pattern list matches s (re.match: anchored at the start)
MatchesSomePattern(patterns, s) ==
    \E i \in 1..Len(patterns) : re_match(patterns[i], s) = "match"

\* Rule 2 was evaluated and did not protect: every pattern was tried on the
\* decided cluster and none matched
Unprotected ==
    /\ Decided
    /\ cluster.name # HostCluster
    /\ \A i \in 1..Len(criteria.protected_cluster_patterns) :
          re_match(criteria.protected_cluster_patterns[i], cluster.name) = "nomatch"
    /\ \A i \in 1..Len(criteria.excluded_namespace_patterns) :
          re_match(criteria.excluded_namespace_patterns[i], cluster.namespace) = "nomatch"

\* A required-label entry fails on a label set: the label is absent, or the
\* entry has a pattern that compiles and the value does not match it
EntryFails(e, labels) ==
    \/ labels[e.name] = Absent
    \/ /\ e.regex.kind \notin {"none", "invalid"}
       /\ re_match(e.regex, labels[e.name]) = "nomatch"

SomeEntryFails == \E i \in 1..Len(criteria.extra_labels) :
                      EntryFails(criteria.extra_labels[i], cluster.labels)

FirstFailingEntry ==
    LET i == CHOOSE i \in 1..Len(criteria.extra_labels) :
                /\ EntryFails(criteria.extra_labels[i], cluster.labels)
                /\ \A j \in 1..(i - 1) : ~EntryFails(criteria.extra_labels[j], cluster.labels)
    IN  criteria.extra_labels[i]

HasValidExpires ==
    /\ cluster.labels["expires"] # Absent
    /\ MatchesExpiresFormat(Lower(Strip(cluster.labels["expires"])))

\* creationTime + lifetime of the decided cluster
ExpiryInstant ==
    LET v == Lower(Strip(cluster.labels["expires"]))
    IN  cluster.creationTimestamp.t + Delta(ToInt(SubSeq(v, 1, Len(v) - 1)), v[Len(v)])

\* C1: a cluster named host-cluster is always decided Protect with the
\* management-cluster reason, whatever the policy, the labels and the times.
C1_HostClusterProtected ==
    (Decided /\ cluster.name = HostCluster)
        => decision = Returned(FALSE, ManagementReason)

C1_Witness ==
    /\ Decided
    /\ cluster.name = HostCluster
    /\ cluster.labels["expires"] = <<"1", "h">>
    /\ cluster.creationTimestamp.kind = "Z"
    /\ now > Created + 1
    /\ criteria.protected_cluster_patterns # <<>>
    /\ criteria.protected_cluster_patterns[1].kind = "invalid"
    /\ decision.should_delete = FALSE

\* C2: a cluster other than host-cluster whose name matches some protected-name
\* pattern, or whose namespace matches some excluded-namespace pattern, is
\* decided Protect / "protected by configuration", whatever its labels.
C2_ProtectedByConfiguration ==
    (/\ Decided
     /\ cluster.name # HostCluster
     /\ \/ MatchesSomePattern(criteria.protected_cluster_patterns, cluster.name)
        \/ MatchesSomePattern(criteria.excluded_namespace_patterns, cluster.namespace))
        => decision = Returned(FALSE, ProtectedReason(cluster.name))

\* C4: an unprotected cluster without an 'expires' label is decided Delete /
\* "Missing 'expires' label", also when required labels fail as well.
C4_MissingExpiresFirst ==
    (Unprotected /\ cluster.labels["expires"] = Absent)
        => decision = Returned(TRUE, MissingExpiresReason)

C4_Witness ==
    /\ Unprotected
    /\ cluster.labels["expires"] = Absent
    /\ cluster.labels["owner"] = Absent
    /\ criteria.protected_cluster_patterns # <<>>
    /\ criteria.extra_labels # <<>>
    /\ criteria.extra_labels[1].name = "owner"
    /\ decision.reason = MissingExpiresReason

\* C5: an unprotected cluster with an 'expires' label and a failing required
\* label is decided Delete, and the reason is that of the first failing entry
\* of extra_labels, also when the cluster has not expired.
C5_FirstLabelFailure ==
    (Unprotected /\ cluster.labels["expires"] # Absent /\ SomeEntryFails)
        => LET e == FirstFailingEntry
               v == cluster.labels[e.name]
           IN  decision = Returned(TRUE, IF v = Absent THEN MissingLabelMsg(e)
                                          ELSE MismatchMsg(e, v))

C5_Witness ==
    /\ Unprotected
    /\ cluster.labels["expires"] = <<"1", "h">>
    /\ cluster.creationTimestamp.kind = "Z"
    /\ now = Created
    /\ Len(criteria.extra_labels) = 2
    /\ criteria.extra_labels[1].name = "cost_centre"
    /\ criteria.extra_labels[2].name = "owner"
    /\ cluster.labels["cost_centre"] = <<"x">>
    /\ cluster.labels["owner"] = Absent
    /\ decision.should_delete

\* C6: an unprotected cluster with a valid 'expires' label, valid required
\* labels and a parsable creation time is decided Delete / "has expired" when
\* now >= creationTime + lifetime and Protect / "has not expired yet" otherwise.
C6_ExpiredIffPastExpiry ==
    (/\ Unprotected
     /\ HasValidExpires
     /\ ~SomeEntryFails
     /\ cluster.creationTimestamp.kind \in {"Z", "offset", "naive"})
        => /\ decision.raised = None
           /\ (now >= ExpiryInstant) =>
                 decision = Returned(TRUE, ExpiredReason(cluster.creationTimestamp,
                                                         cluster.labels["expires"]))
           /\ (now < ExpiryInstant) =>
                 /\ ~decision.should_delete
                 /\ IsPrefix(<<"Cluster", "has", "not", "expired", "yet">>, decision.reason)

-----------------------------------------------------------------------------
(* Properties of a whole run (SpecRun) *)

\* The last cluster the run evaluated got a decision
Evaluated == cluster # NoCluster /\ decision.raised = None

\* The reference of kc names no existing CAPI cluster
Unresolved(kc) ==
    ~(Truthy(kc.capi.name) /\ Truthy(kc.capi.namespace) /\ kc.capi.get = "found")

UnresolvedReason(kc) ==
    IF Truthy(kc.capi.name) /\ Truthy(kc.capi.namespace)
    THEN NotFoundReason(kc.capi.name)
    ELSE NoReferenceReason

LastExcluded == excluded_clusters[Len(excluded_clusters)]

NeverDeleted(kc) ==
    /\ \A i \in 1..Len(clusters_to_delete) :
           clusters_to_delete[i].info.kommander_cluster # kc
    /\ \A i \in 1..Len(delete_calls) :
           ~(/\ delete_calls[i].name = kc.capi.name
             /\ delete_calls[i].namespace = kc.capi.namespace)

\* C3 as stated: a cluster whose reference cannot be resolved is never put in
\* the delete-set, never gets a delete call, and is always reported with the
\* reason "No valid CAPI cluster reference" or "Referenced CAPI cluster ... not
\* found", whatever the rule chain decided for it.
C3_UnresolvedReportedUnresolved ==
    /\ \A j \in 1..Len(inventory) : Unresolved(inventory[j]) => NeverDeleted(inventory[j])
    /\ (Evaluated /\ Unresolved(cluster))
           => /\ excluded_clusters # <<>>
              /\ LastExcluded.info.kommander_cluster = cluster
              /\ LastExcluded.reason \in
                     {NoReferenceReason, NotFoundReason(cluster.capi.name)}

\* C3, amended: a cluster whose reference cannot be resolved is never put in
\* the delete-set and never gets a delete call, whatever the rule chain decided
\* for it; it is reported as excluded, with the reason "No valid CAPI cluster
\* reference" (name or namespace absent) or "Referenced CAPI cluster ... not
\* found" when the rule chain decided Delete, and with the rule chain's own
\* reason when the rule chain decided Protect.
C3_UnresolvedNeverDeleted ==
    /\ \A j \in 1..Len(inventory) : Unresolved(inventory[j]) => NeverDeleted(inventory[j])
    /\ (Evaluated /\ Unresolved(cluster))
           => /\ excluded_clusters # <<>>
              /\ LastExcluded = Entry(CombinedInfo(cluster),
                                      IF decision.should_delete
                                      THEN UnresolvedReason(cluster)
                                      ELSE decision.reason)

\* A delete run that made a delete call for one cluster and excluded another,
\* which the rule chain wanted deleted, because its CAPI cluster was not found
C3_Witness ==
    /\ command = "delete"
    /\ pc = "done"
    /\ delete_calls # <<>>
    /\ Evaluated
    /\ decision.should_delete
    /\ cluster.capi.get = "404"
    /\ Truthy(cluster.capi.name)
    /\ LastExcluded.reason = NotFoundReason(cluster.capi.name)

PatternsCompile(crit) ==
    /\ \A i \in 1..Len(crit.protected_cluster_patterns) :
           crit.protected_cluster_patterns[i].kind # "invalid"
    /\ \A i \in 1..Len(crit.excluded_namespace_patterns) :
           crit.excluded_namespace_patterns[i].kind # "invalid"
    /\ \A i \in 1..Len(crit.extra_labels) : crit.extra_labels[i].regex.kind # "invalid"

\* C7: under a policy whose patterns compile, evaluating a cluster always ends
\* with a decision, whatever its 'expires' label and creationTimestamp, the run
\* is never aborted by it, and every cluster of the inventory is evaluated.
C7_EvaluationNeverAborts ==
    PatternsCompile(criteria)
        => /\ cluster # NoCluster => decision.raised = None
           /\ pc # "aborted" \/ ~ThresholdsValid(thresholds[1], thresholds[2])
           /\ pc \in {"classify", "delete", "done"}
                  => Len(clusters_to_delete) + Len(excluded_clusters) = Len(inventory)

NotifyDone == command = "notify" /\ pc = "done"

Notified(info) ==
    \/ \E i \in 1..Len(critical_clusters) : critical_clusters[i].info = info
    \/ \E i \in 1..Len(warning_clusters) : warning_clusters[i].info = info

\* C8: after a notify run, the critical list starts with the clusters of the
\* delete-set, in order, each with elapsed percentage 100.0, and no cluster of
\* the delete-set is anywhere else in the critical or the warning list.
C8_DeleteSetAllCritical ==
    NotifyDone
        => /\ Len(critical_clusters) >= Len(clusters_to_delete)
           /\ \A i \in 1..Len(clusters_to_delete) :
                  /\ critical_clusters[i].info = clusters_to_delete[i].info
                  /\ critical_clusters[i].elapsed = FloatOfInt(100)
                  /\ \A j \in 1..Len(warning_clusters) :
                         warning_clusters[j].info # clusters_to_delete[i].info
                  /\ \A j \in (Len(clusters_to_delete) + 1)..Len(critical_clusters) :
                         critical_clusters[j].info # clusters_to_delete[i].info

\* A notify run with two clusters to delete, the first one for an 'expires'
\* label whose value, "expired", is quoted in the reason
C8_Witness ==
    /\ NotifyDone
    /\ Len(clusters_to_delete) = 2
    /\ clusters_to_delete[1].info.labels["expires"] = <<"expired">>
    /\ Contains(clusters_to_delete[1].reason, <<"expired">>)
    /\ Len(critical_clusters) = 2

OtherProtectReasons(kc) ==
    {ManagementReason, ProtectedReason(kc.name), NoReferenceReason,
     NotFoundReason(kc.capi.name)}

\* C10: after a notify run, a cluster excluded as management cluster, as
\* protected by configuration or for an unresolved cluster reference is in
\* neither the critical nor the warning list.
C10_OtherProtectNeverNotified ==
    NotifyDone
        => \A i \in 1..Len(excluded_clusters) :
               excluded_clusters[i].reason
                       \in OtherProtectReasons(excluded_clusters[i].info.kommander_cluster)
                   => ~Notified(excluded_clusters[i].info)

\* A notify run, classifying after the lifetime of one hour that the
\* management cluster's 'expires' label gives it, that notified another cluster
C10_Witness ==
    /\ NotifyDone
    /\ current_time > Created
    /\ critical_clusters # <<>> \/ warning_clusters # <<>>
    /\ \E i \in 1..Len(excluded_clusters) :
           /\ excluded_clusters[i].reason = ManagementReason
           /\ excluded_clusters[i].info.labels["expires"] = <<"1", "h">>

-----------------------------------------------------------------------------
(* Properties of the classification (SpecClassify) *)

\* The bucket of elapsed / total * 100, clamped to [0, 100], in exact arithmetic
ExactSeverity(elapsed, total, warning_threshold, critical_threshold) ==
    LET clamped == IF elapsed < 0 THEN 0 ELSE IF elapsed > total THEN total ELSE elapsed
    IN  IF 100 * clamped >= critical_threshold * total THEN "critical"
        ELSE IF 100 * clamped >= warning_threshold * total THEN "warning"
        ELSE "none"

\* The cluster of the run was excluded as not expired yet and then classified
UnexpiredClassified ==
    /\ NotifyDone
    /\ Len(excluded_clusters) = 1
    /\ Contains(excluded_clusters[1].reason, <<"has", "not", "expired", "yet">>)

\* Its lifetime, and how much of it had passed when it was classified, in hours
TotalHours ==
    parse_expires_label(cluster.labels["expires"], cluster.creationTimestamp).t
        - cluster.creationTimestamp.t
ElapsedHours == current_time - cluster.creationTimestamp.t

\* floor(f * 1024) of a double f below 2^7
Fixed(f) ==
    IF f.m = <<>> \/ MantissaBits + f.x + 10 <= 0 THEN 0
    ELSE ValueOf(SubSeq(f.m, 1, MantissaBits + f.x + 10))

\* f is n / d, up to 1 / 1024
Approximates(f, n, d) ==
    /\ Fixed(f) * d - n * 1024 <= d
    /\ n * 1024 - Fixed(f) * d <= d

\* C9: a cluster that has not expired yet, elapsed hours into a lifetime of
\* total > 0 hours, is critical iff 100 * elapsed / total, clamped to [0, 100],
\* is at least the critical threshold, warning iff it is at least the warning
\* threshold and below the critical one, and not notified otherwise; the
\* percentage reported is that quotient (up to rounding in the last digits).
C9_SeverityOfElapsedPercentage ==
    (UnexpiredClassified /\ TotalHours > 0)
        => LET sev == ExactSeverity(ElapsedHours, TotalHours, thresholds[1],
                                    thresholds[2])
               clamped == IF ElapsedHours < 0 THEN 0
                          ELSE IF ElapsedHours > TotalHours THEN TotalHours
                          ELSE ElapsedHours
           IN  /\ Len(critical_clusters) = (IF sev = "critical" THEN 1 ELSE 0)
               /\ Len(warning_clusters) = (IF sev = "warning" THEN 1 ELSE 0)
               /\ \A i \in 1..Len(critical_clusters) :
                      Approximates(critical_clusters[i].elapsed, 100 * clamped, TotalHours)
               /\ \A i \in 1..Len(warning_clusters) :
                      Approximates(warning_clusters[i].elapsed, 100 * clamped, TotalHours)

\* C23: a cluster whose lifetime is zero hours (expiry instant = creation
\* instant) is classified critical with an elapsed percentage of 100.
C23_ZeroWindowIsCritical ==
    (NotifyDone /\ cluster.labels["expires"] = <<"0", "h">>)
        => /\ Len(critical_clusters) = 1
           /\ critical_clusters[1].elapsed = Pct100

-----------------------------------------------------------------------------
(* Properties of delete-clusters (SpecDelete) *)

DeleteDone == command = "delete" /\ pc = "done"

CalledCluster(call) == [name |-> call.name, namespace |-> call.namespace]

\* The clusters whose delete call succeeded, in call order
RECURSIVE SucceededCalls(_)
SucceededCalls(calls) ==
    IF calls = <<>> THEN <<>>
    ELSE (IF calls[1].ok THEN <<CalledCluster(calls[1])>> ELSE <<>>)
             \o SucceededCalls(Tail(calls))

Count(calls, ok) == Cardinality({i \in 1..Len(calls) : calls[i].ok = ok})

\* C14: with --delete, clear_cluster_history is called once for each cluster
\* whose delete call succeeded, right after that call, and for no other
\* cluster (never after a failed call, never in dry-run); from then on the
\* cluster is recorded as notified at no severity.
C14_HistoryClearedAfterDelete ==
    /\ clear_calls = SucceededCalls(delete_calls)
    /\ \A i \in 1..Len(delete_calls) :
           delete_calls[i].ok =>
               \A sev \in Severities :
                   ~has_been_notified(history, delete_calls[i].name,
                                      delete_calls[i].namespace, sev)

C18_ExitStatusReportsFailedDeletes ==
    DeleteDone => (ExitStatus # 0 <=> failed_count > 0)

-----------------------------------------------------------------------------
(* Properties of the policy load (SpecRun) *)

ProtectionPatternsCompile(crit) ==
    /\ \A i \in 1..Len(crit.protected_cluster_patterns) :
           crit.protected_cluster_patterns[i].kind # "invalid"
    /\ \A i \in 1..Len(crit.excluded_namespace_patterns) :
           crit.excluded_namespace_patterns[i].kind # "invalid"

\* C20: no cluster is evaluated under a policy document with a protected-name
\* or excluded-namespace pattern that does not compile, nor under a policy
\* that lacks an entry of the document: such a document stops the command
\* when it is loaded.
C20_ConfigurationErrorsFatalAtLoad ==
    cluster # NoCluster
        => /\ ProtectionPatternsCompile(config_data)
           /\ Len(criteria.protected_cluster_patterns)
                  = Len(config_data.protected_cluster_patterns)
           /\ Len(criteria.excluded_namespace_patterns)
                  = Len(config_data.excluded_namespace_patterns)
           /\ Len(criteria.extra_labels) = Len(config_data.extra_labels)


-----------------------------------------------------------------------------
(* Properties of notify (SpecNotify) *)

ClusterRef(n) ==
    [cluster_name |-> n.info.capi_cluster_name,
     namespace |-> n.info.capi_cluster_namespace]

Refs(list) == {ClusterRef(list[i]) : i \in 1..Len(list)}

\* The (cluster, severity) pairs of a classification
Alerts(lists) ==
    {<<c, "critical">> : c \in Refs(lists.critical_clusters)}
    \cup {<<c, "warning">> : c \in Refs(lists.warning_clusters)}

\* The requests process r made to Slack
SentBy(r) == {i \in 1..Len(sent) : sent[i].run = r}

Classified(r) ==
    runs[r].pc \in {"filter_critical", "filter_warning", "send_critical",
                    "mark_critical", "send_warning", "mark_warning", "done"}

Filtered(r) ==
    runs[r].pc \in {"send_critical", "mark_critical", "send_warning",
                    "mark_warning", "done"}

\* Process r started after process q had completed a run with the backend
\* and the history, each of its sends accepted
Follows(r, q) ==
    /\ r # q
    /\ runs[r].pc # "idle"
    /\ runs[r].at_start[q] = "done"
    /\ runs[q].backend = "slack"
    /\ runs[r].backend = "slack"
    /\ runs[r].notification_history # None

\* Process r found what process q had found
SameFindings(r, q) ==
    /\ runs[r].needing = clusters_needing_notifications(runs[q].classified)
    /\ Classified(r) => Alerts(runs[r].classified) = Alerts(runs[q].classified)

\* C11: a notify run that follows a completed notify run and finds the same
\* clusters at the same severities clears no record the first run wrote,
\* keeps no cluster in either filtered list and makes no request to Slack.
C11_SecondRunDeliversNothing ==
    \A r \in RunIds, q \in RunIds :
        (/\ Follows(r, q)
         /\ runs[r].pc \notin {"cleanup", "aborted"}
         /\ SameFindings(r, q))
        => /\ runs[r].cleared \cap
                  (Refs(runs[q].critical_clusters) \cup Refs(runs[q].warning_clusters)) = {}
           /\ SentBy(r) = {}
           /\ ~Filtered(r) \/ runs[r].pc = "done"
           /\ runs[r].pc \notin {"filter_critical"} /\ Classified(r)
                  => runs[r].critical_clusters = <<>>
           /\ runs[r].pc = "done" => runs[r].warning_clusters = <<>>

C11_Witness ==
    \E r \in RunIds, q \in RunIds :
        /\ Follows(r, q)
        /\ runs[r].pc = "done"
        /\ SameFindings(r, q)
        /\ Len(runs[q].critical_clusters) = 1
        /\ Len(runs[q].warning_clusters) = 1
        /\ Len(runs[r].classified.critical_clusters) = 1
        /\ Len(runs[r].classified.warning_clusters) = 1
        /\ Cardinality(SentBy(q)) = 2


\* No other process ran while process r did
Alone(r) ==
    \A o \in RunIds \ {r} :
        runs[o].pc = "idle" \/ runs[r].at_start[o] \in {"done", "aborted"}

\* The stored clusters that need no notification
NotNeeded(r) == {c \in runs[r].stored : NeedKey(c.cluster_name, c.namespace) \notin runs[r].needing}

AlertedForMissingLabel(q, n) ==
    \E j \in 1..Len(runs[q].critical_clusters) :
        /\ ClusterRef(runs[q].critical_clusters[j]) = ClusterRef(n)
        /\ runs[q].critical_clusters[j].info.labels.expires = Absent
        /\ n.info.labels.expires # Absent

\* C13: when a run has alerted at critical for a cluster without an 'expires'
\* label and the label has been added since, a later run that finds the
\* cluster critical (it has expired) keeps it in the filtered critical list.
C13_StaleRecordNeverSuppresses ==
    \A r \in RunIds, q \in RunIds :
        (Follows(r, q) /\ Filtered(r))
        => \A i \in 1..Len(runs[r].classified.critical_clusters) :
               AlertedForMissingLabel(q, runs[r].classified.critical_clusters[i])
               => ClusterRef(runs[r].classified.critical_clusters[i])
                      \in Refs(runs[r].critical_clusters)


\* The process that started first
First(r) == \A o \in RunIds \ {r} : runs[r].at_start[o] = "idle"

\* What one run leaves of the store h when it finds the classification lists:
\* the records of the clusters that need a notification, and a record for
\* each alert
SingleRunHistory(h, lists) ==
    {p \in h : \E c \in Refs(lists.critical_clusters) \cup Refs(lists.warning_clusters) :
                   p[1] = _get_cluster_key(c.cluster_name, c.namespace)}
    \cup {<<_get_cluster_key(a[1].cluster_name, a[1].namespace), a[2]>> :
             a \in Alerts(lists)}

\* The requests to Slack that carry cluster c at a severity
Deliveries(c, severity) ==
    {i \in 1..Len(sent) :
        /\ sent[i].severity = severity
        /\ \E k \in 1..Len(sent[i].clusters) : sent[i].clusters[k] = c}

BothDone ==
    \A r \in RunIds :
        /\ runs[r].pc = "done"
        /\ runs[r].notification_history # None
        /\ \A o \in RunIds : /\ runs[r].needing = runs[o].needing
                             /\ Alerts(runs[r].classified) = Alerts(runs[o].classified)
        /\ runs[r].needing = clusters_needing_notifications(runs[r].classified)

\* C15: when two notify runs, interleaved in any way, have completed against
\* the same store and have found the same clusters at the same severities,
\* the store is what a single run would have left of the store the first
\* process found, and no (cluster, severity) was sent to Slack more than twice.
C15_ConcurrentRunsConverge ==
    BothDone
    => /\ \A r \in RunIds :
              First(r) => history = SingleRunHistory(runs[r].found, runs[r].classified)
       /\ \A r \in RunIds, severity \in Severities :
              \A c \in Refs(runs[r].classified.critical_clusters)
                           \cup Refs(runs[r].classified.warning_clusters) :
                  Cardinality(Deliveries(c, severity)) <= 2

\* Both processes were past the filter before either had marked a cluster:
\* the critical cluster went to Slack twice
C15_Witness ==
    /\ BothDone
    /\ \E r \in RunIds : First(r) /\ runs[r].found # {}
    /\ \A r \in RunIds : \A o \in RunIds \ {r} : runs[r].at_start[o] \notin {"done", "aborted"}
    /\ \E c \in Refs(runs[1].classified.critical_clusters) :
           Cardinality(Deliveries(c, "critical")) = 2
    /\ runs[1].cleared # {}


Ended(r) == runs[r].pc \in {"done", "aborted"}

\* C17: a run whose request for the critical notifications failed, and whose
\* filtered warning list is not empty, has made the request for the warning
\* notifications by the time it ends.
C17_WarningsSentAfterFailedCriticals ==
    \A r \in RunIds :
        (/\ Ended(r)
         /\ \E i \in SentBy(r) : sent[i].severity = "critical" /\ ~sent[i].ok
         /\ runs[r].warning_clusters # <<>>)
        => \E j \in SentBy(r) : sent[j].severity = "warning"


\* Process r has a backend and found no Redis
StoreUnreachable(r) ==
    /\ runs[r].pc # "idle"
    /\ runs[r].backend # None
    /\ runs[r].notification_history = None

FilteredList(r, severity) ==
    IF severity = "critical" THEN runs[r].critical_clusters ELSE runs[r].warning_clusters

\* C19: a notify run with a backend that cannot reach Redis is aborted with
\* nothing evaluated, cleared, filtered or sent; every request to Slack comes
\* from a run with a history and carries only clusters its filter kept.
C19_FailsClosedWithoutHistory ==
    /\ \A r \in RunIds :
           StoreUnreachable(r)
           => /\ runs[r] = [IdleRun EXCEPT !.pc = "aborted",
                                           !.backend = runs[r].backend,
                                           !.at_start = runs[r].at_start]
              /\ SentBy(r) = {}
    /\ \A i \in 1..Len(sent) :
           /\ runs[sent[i].run].notification_history # None
           /\ \A k \in 1..Len(sent[i].clusters) :
                  sent[i].clusters[k] \in Refs(FilteredList(sent[i].run, sent[i].severity))

BothSeverities(res) ==
    /\ res.raised = None
    /\ res.lists.critical_clusters # <<>>
    /\ res.lists.warning_clusters # <<>>

\* Redis is down while a cluster is critical and another is at warning
C19_Witness ==
    \E r \in RunIds :
        /\ StoreUnreachable(r)
        /\ BothSeverities(Evaluation(inventory, now))
        /\ \E o \in RunIds : SentBy(o) # {}


\* The thresholds violate 0 <= warningPct < criticalPct <= 100
ThresholdsViolated ==
    ~(0 <= thresholds[1] /\ thresholds[1] < thresholds[2] /\ thresholds[2] <= 100)

\* C24: with thresholds that violate 0 <= warningPct < criticalPct <= 100 the
\* classification raises before a cluster is classified, and a notify run
\* ends aborted without having cleared or marked a history record and without
\* having sent a notification.
C24_InvalidThresholdsFailFirst ==
    /\ [](ThresholdsViolated
            => /\ \A items \in NotifyInventories :
                      Evaluation(items, now) =
                          [raised |-> "ValueError", lists |-> NoClassification]
               /\ sent = <<>>
               /\ \A r \in RunIds :
                      /\ runs[r].pc \in {"idle", "cleanup", "classify", "aborted"}
                      /\ runs[r].classified = NoClassification
                      /\ runs[r].cleared = {}
                      /\ runs[r].backend # None /\ runs[r].pc # "idle"
                             => runs[r].pc \in {"cleanup", "aborted"})
    /\ [][ThresholdsViolated => history' = history]_vars

\* A run with a backend and stored records was aborted under invalid
\* thresholds, while clusters wait for both severities
C24_Witness ==
    /\ ThresholdsViolated
    /\ history # EmptyStore
    /\ BothSeverities(NotifyEvaluations[NotifyThresholds][inventory][now])
    /\ \E r \in RunIds :
           /\ runs[r].pc = "aborted"
           /\ runs[r].notification_history # None
    /\ \E r \in RunIds :
           /\ runs[r].pc = "aborted"
           /\ runs[r].backend = None

\* The last request process r made to Slack, 0 when it made none
LastSentBy(r) ==
    IF SentBy(r) = {} THEN 0 ELSE CHOOSE i \in SentBy(r) : \A j \in SentBy(r) : j <= i

Marking(r) == runs[r].pc \in {"mark_critical", "mark_warning"}

SeverityMarked(r) == IF runs[r].pc = "mark_critical" THEN "critical" ELSE "warning"

\* The history records of the clusters of a request
RecordsOf(delivery) ==
    {<<_get_cluster_key(delivery.clusters[k].cluster_name, delivery.clusters[k].namespace),
       delivery.severity>> : k \in 1..Len(delivery.clusters)}

\* Process r takes a step
Acts(r) == runs'[r] # runs[r]

\* Process r is told by Slack that its request failed
FailedSend(r) ==
    /\ Acts(r)
    /\ Len(sent') = Len(sent) + 1
    /\ ~sent'[Len(sent')].ok

\* C28: a record (cluster, severity) enters the history only in the marking
\* that follows a successful request of that severity for that cluster by
\* the same process; a failed request leaves the history as it is and ends
\* the process, so that no cluster of the failed batch is marked and the
\* critical records marked before a failed warning request stay.
C28_MarkedOnlyAfterDelivery ==
    [][\A r \in RunIds :
          /\ (Acts(r) /\ Marking(r))
                 => /\ LastSentBy(r) # 0
                    /\ sent[LastSentBy(r)].ok
                    /\ sent[LastSentBy(r)].severity = SeverityMarked(r)
                    /\ history \subseteq history'
                    /\ history' \ history \subseteq RecordsOf(sent[LastSentBy(r)])
          /\ (Acts(r) /\ ~Marking(r)) => history' \subseteq history
          /\ FailedSend(r) => /\ history' = history
                              /\ runs'[r].pc = "aborted"
       ]_vars

\* A process was aborted by a failed warning request after its critical
\* request succeeded: the critical records are stored, the warning ones not
C28_Witness ==
    \E r \in RunIds :
        /\ runs[r].pc = "aborted"
        /\ Len(sent) = 2
        /\ SentBy(r) = {1, 2}
        /\ sent[1].severity = "critical" /\ sent[1].ok
        /\ sent[2].severity = "warning" /\ ~sent[2].ok
        /\ RecordsOf(sent[1]) \subseteq history
        /\ RecordsOf(sent[2]) \cap history = {}

\* The runs took place one after the other
Sequential ==
    \A r \in RunIds, q \in RunIds :
        (r # q /\ runs[r].pc # "idle" /\ runs[q].pc # "idle")
            => \/ runs[r].at_start[q] \in {"done", "aborted"}
               \/ runs[q].at_start[r] \in {"done", "aborted"}

AllAccepted == \A i \in 1..Len(sent) : sent[i].ok

\* The clusters of the inventories
KnownRefs ==
    {[cluster_name |-> n, namespace |-> <<"default">>] : n \in {<<"dev">>, <<"prod", "-1">>}}

Record(c, severity) == <<_get_cluster_key(c.cluster_name, c.namespace), severity>>

\* No run found c without a need for a notification
NeverCleared(c) == \A r \in RunIds : c \notin runs[r].cleared

-----------------------------------------------------------------------------
(* Properties of notify with --namespace (SpecScoped) *)

\* The stored cluster c requires a notification when every namespace is
\* examined
StillRequired(c) ==
    ~IsStale(c, clusters_needing_notifications(Evaluation(inventory, now).lists))

\* C27: the stale-history cleanup of a run restricted to a namespace clears
\* no record of a cluster of another namespace that still requires a
\* notification.
C27_ScopedCleanupKeepsOtherNamespaces ==
    \A r \in RunIds :
        runs[r].namespace # None
            => \A c \in runs[r].cleared :
                   StillRequired(c) => c.namespace = runs[r].namespace

-----------------------------------------------------------------------------
(* Properties of the listing (SpecList) *)

Listed == listing # NoListing /\ listing.namespaces = "ok"

\* The clusters of the namespaces that answered, as
\* get_clusters_with_exclusions receives them
ReachableClusters ==
    {ListedIn(listing.responses[i].items[1], listing.responses[i].namespace) :
        i \in {j \in 1..Len(listing.responses) :
                  /\ listing.responses[j].status = "ok"
                  /\ listing.responses[j].items # <<>>
                  /\ HasCapiCluster(listing.responses[j].items[1])}}

-----------------------------------------------------------------------------
(* Properties of the expiry instant (SpecExpiry) *)

\* The hours of one unit: a year is 365 days
LifetimeHours(u) ==
    CASE u \in {"h", "H"} -> 1
      [] u \in {"d", "D"} -> 24
      [] u \in {"w", "W"} -> 168
      [] u \in {"y", "Y"} -> 8760

Parsed == command = "expiry" /\ pc = "done"

\* C22: for every creation instant t and every number N, the expiry instant
\* of "N<unit>" is t + N units, whatever the case of the unit letter; "(N+1)d"
\* expires one day after "Nd" and "1y" when "365d" does.
C22_ExpiryIsCreationPlusLifetime ==
    Parsed
    => /\ \E n \in ExpiresNumbers, u \in UnitLetters :
              /\ cluster.labels.expires = ExpiresLabel(n, u)
              /\ decision.err = None
              /\ decision.t = cluster.creationTimestamp.t + n * LifetimeHours(u)
       /\ \A n \in ExpiresNumbers :
              LET one == parse_expires_label(ExpiresLabel(n, "d"), cluster.creationTimestamp)
                  next == parse_expires_label(ExpiresLabel(n + 1, "d"),
                                              cluster.creationTimestamp)
              IN  one.err = None /\ next.err = None /\ next.t = one.t + 24
       /\ parse_expires_label(ExpiresLabel(1, "y"), cluster.creationTimestamp)
              = parse_expires_label(ExpiresLabel(365, "d"), cluster.creationTimestamp)

-----------------------------------------------------------------------------
(* Properties of the plan and commit modes (SpecPlan) *)

PlanMode == command \in {"list", "dry-run"}

\* The (CAPI name, namespace) pairs of a list of entries or of calls
Targets(entries) ==
    [i \in 1..Len(entries) |->
        IF "info" \in DOMAIN entries[i]
        THEN <<entries[i].info.capi_cluster_name, entries[i].info.capi_cluster_namespace>>
        ELSE <<entries[i].name, entries[i].namespace>>]

\* C26: list-clusters and the dry run of delete-clusters issue no delete
\* call, clear and mark no history record and send no deletion notification,
\* and the delete list with its reasons they report is the one every command
\* computes from the policy, the inventory and the clock, which is the list
\* of clusters the commit run hands to delete_cluster.
C26_PlanOnlyReports ==
    /\ [](PlanMode => /\ delete_calls = <<>>
                       /\ clear_calls = <<>>
                       /\ sent = <<>>
                       /\ notification_history = None
                       /\ failed_count = 0
                       /\ pc # "notify_deleted")
    /\ [][PlanMode => history' = history]_vars
    /\ [](pc \in {"delete", "notify_deleted", "done"}
            => LET found == get_clusters_with_exclusions(criteria, inventory, now, 1)
               IN  /\ found.raised = None
                   /\ clusters_to_delete = found.clusters_to_delete
                   /\ excluded_clusters = found.excluded_clusters)
    /\ [](pc = "done" /\ command = "dry-run" => deleted_count = Len(clusters_to_delete))
    /\ [](pc \in {"notify_deleted", "done"} /\ command = "delete"
            => Targets(delete_calls) = Targets(clusters_to_delete))

\* A dry run with a backend has reported two clusters, one of them with
\* stored notification records
C26_Witness ==
    /\ command = "dry-run"
    /\ pc = "done"
    /\ notify_backend = "slack"
    /\ deleted_count = 2
    /\ history # EmptyStore
    /\ \E i \in 1..Len(clusters_to_delete) :
           has_been_notified(history, clusters_to_delete[i].info.capi_cluster_name,
                             clusters_to_delete[i].info.capi_cluster_namespace, "warning")

-----------------------------------------------------------------------------
(* Properties of the protection patterns in a commit run (SpecGuard) *)

\* The policy holds a name or namespace pattern that is not a regular
\* expression
HasInvalidPattern ==
    \/ \E i \in 1..Len(criteria.protected_cluster_patterns) :
           criteria.protected_cluster_patterns[i] = InvalidPattern
    \/ \E i \in 1..Len(criteria.excluded_namespace_patterns) :
           criteria.excluded_namespace_patterns[i] = InvalidPattern

\* C30: delete-clusters --delete under a policy with a protected-name or
\* excluded-namespace pattern that is not a regular expression hands no
\* cluster to delete_cluster: its delete list stays empty, and under every
\* policy the first delete call comes after the last cluster was evaluated.
C30_InvalidPatternDeletesNothing ==
    /\ (command = "delete" /\ HasInvalidPattern)
           => /\ delete_calls = <<>>
              /\ clear_calls = <<>>
              /\ clusters_to_delete = <<>>
              /\ deleted_count = 0
    /\ delete_calls # <<>>
           => /\ pc \in {"delete", "notify_deleted", "done"}
              /\ Len(clusters_to_delete) + Len(excluded_clusters) = Len(inventory)

\* The run was aborted by the invalid pattern that follows a pattern
\* protecting prod-1, at a cluster that an empty policy would delete
C30_Witness ==
    /\ command = "delete"
    /\ criteria.protected_cluster_patterns = <<LitPattern(<<"prod">>, FALSE), InvalidPattern>>
    /\ pc = "aborted"
    /\ decision.raised = "re.error"
    /\ kommander_cluster_matches_criteria(EmptyPolicy, cluster, now).should_delete
    /\ \E i \in 1..Len(inventory) : inventory[i].name = <<"prod", "-1">>

-----------------------------------------------------------------------------
(* Properties of the required labels (SpecLabels) *)

\* The entries of the loaded policy whose pattern does not compile
Uncompilable ==
    {i \in 1..Len(criteria.extra_labels) : criteria.extra_labels[i].regex = InvalidPattern}

\* The messages of a sequence
Messages(errors) == {errors[i] : i \in 1..Len(errors)}

\* C25: a required label whose pattern is not a valid regular expression
\* loads like any other entry, and in the evaluation of a cluster it fails
\* exactly when the cluster does not carry the label: a present value is
\* never reported as a mismatch and the pattern raises no error.
C25_InvalidLabelPatternAlwaysValid ==
    /\ pc \in {"loaded", "decided"}
           => /\ Len(criteria.extra_labels) = Len(config_data.extra_labels)
              /\ \A i \in 1..Len(criteria.extra_labels) :
                     criteria.extra_labels[i].regex = config_data.extra_labels[i].regex
    /\ Decided
           => /\ decision.raised # "re.error"
              /\ \A i \in Uncompilable :
                     LET e == criteria.extra_labels[i]
                         errors == Messages(validate_extra_labels(criteria, cluster.labels))
                     IN  /\ MissingLabelMsg(e) \in errors <=> cluster.labels[e.name] = Absent
                         /\ MismatchMsg(e, cluster.labels[e.name]) \notin errors
                         /\ decision.reason # MismatchMsg(e, cluster.labels[e.name])
              /\ (/\ Uncompilable = 1..Len(criteria.extra_labels)
                  /\ cluster.labels["expires"] # Absent
                  /\ \A i \in Uncompilable :
                         cluster.labels[criteria.extra_labels[i].name] # Absent)
                     => decision = ExpiryDecision(cluster, now)

\* A cost centre that is not a number was decided under a policy whose only
\* required label is cost_centre with a pattern that does not compile
C25_Witness ==
    /\ Decided
    /\ criteria.extra_labels = <<ExtraLabel("cost_centre", InvalidPattern)>>
    /\ cluster.labels["cost_centre"] = <<"x">>
    /\ cluster.labels["expires"] = <<"1", "h">>
    /\ decision = Returned(FALSE, NotExpiredReason(1))

====
